---- MODULE Spec2Model ----
(***************************************************************************)
(* Model of the Jira issue synchronisation scripts:                        *)
(*   - src/sync_issues.py : FieldProcessor (value resolver), the           *)
(*     attachment merge (sync_attachments) and the orchestrator run_sync   *)
(*   - src/jira_sync.py   : JiraSyncEngine.get_reverse_value               *)
(*   - src/sync_demo.py   : the older FieldProcessor.resolve_value         *)
(***************************************************************************)
EXTENDS Integers, Sequences, FiniteSets, TLC

VARIABLES
    srcAtt,        \* source key -> sequence of attachment filenames on that issue
    tgtAtt,        \* target key -> sequence of attachment filenames on that issue
    staging,       \* target key -> set of filenames in the local directory of that key
    partialFiles,  \* target key -> staged files whose content was cut short
    merge,         \* the frame of the running sync_attachments call
    lastRun,       \* summary of the most recent completed sync_attachments call
    prevRun,       \* summary of the call completed before lastRun
    envSince,      \* a user changed an attachment list since the last completed merge
    userOps,       \* number of user (remote) operations so far
    merges,        \* number of sync_attachments calls so far
    failures,      \* number of remote calls that have failed so far
    rv,            \* one call of a value resolver: its arguments and its result
    pp,            \* one call of a payload builder: which one, its direction, its result
    mappings,      \* the rules of jira_field_mapping.json, in file order
    tz,            \* UTC offsets of the source site, the target site and the host
    srcIssues,     \* source key -> the issue (fields, updated) on the source site
    tgtIssues,     \* target key -> the issue (fields, updated) on the target site
    clock,         \* the instant of the latest remote write
    run,           \* the frame of run_sync: position, lookup map, tallies
    calls,         \* the remote calls of the current run, in order
    proc,          \* what run_sync decided for the source issue it handled last
    creates,       \* every successful create call so far, over all runs
    runs           \* number of run_sync executions started so far

attVars == <<srcAtt, tgtAtt, staging, partialFiles>>

mergeVars == <<merge, lastRun, prevRun, envSince>>

vars == <<srcAtt, tgtAtt, staging, partialFiles, merge, lastRun, prevRun, envSince,
          userOps, merges, failures, rv, pp,
          mappings, tz, srcIssues, tgtIssues, clock, run, calls, proc, creates, runs>>

(***************************************************************************)
(* Bounds                                                                  *)
(***************************************************************************)
MaxUserOps == 2

MaxMerges == 2

MaxFailures == 2

MaxRuns == 2

MaxEdits == 1

MaxRunFailures == 1

MaxTargets == 3

SourceKeys == {"S1", "S2"}

\* the keys the target site hands out, in order of creation
TargetKeySeq == <<"T1", "T2", "T3", "T4", "T5">>

TargetKeys == {TargetKeySeq[n] : n \in 1..MaxTargets}

SourceProjectKey == "SRC"
TargetProjectKey == "TGT"

\* Filenames users attach by hand.  A filename is the sequence of its leading
\* "[KEY] " prefixes followed by the rest of the name: <<"SRC", "a">> is "[SRC] a".
UserFiles == {<<"a">>, <<"b">>}

Range(s) == {s[i] : i \in 1..Len(s)}

(***************************************************************************)
(* Filename prefix convention                                              *)
(***************************************************************************)
\* what is left of the last part of a name once its leading whitespace is
\* taken off; " a" is the one name of the model that starts with a blank
AfterBlanks(rest) == IF rest = " a" THEN "a" ELSE rest

\* re.match(r'^\[[^\]]+\]\s+(.+)$'): one leading prefix is stripped, provided
\* something non-empty follows it; \s+ takes the blank that follows the prefix
\* and every blank after it.
remove_prefix_from_filename(f) ==
    IF Len(f) >= 3 THEN Tail(f)
    ELSE IF Len(f) = 2 /\ AfterBlanks(f[2]) # "" THEN <<AfterBlanks(f[2])>>
    ELSE f

get_filename_with_prefix(f, project_key) ==
    <<project_key>> \o remove_prefix_from_filename(f)

CleanNames(files) == {remove_prefix_from_filename(f) : f \in files}

\* get_local_attachments: the stripped names of the files of the directory
get_local_attachments(dir) == CleanNames(dir)


(***************************************************************************)
(* Field values.  A value of a Jira field is None, a string, or an object  *)
(* with the sub-fields name and value (either may be missing).             *)
(***************************************************************************)
None == <<"none">>

Str(s) == <<"str", s>>

Dict(name, value) == <<"dict", name, value>>

IsDict(x) == x[1] = "dict"

\* Python truthiness of a value
Truthy(x) == x # None /\ x # Str("")

\* an ordered table {k1: v1, k2: v2, ...} is the sequence of its <<k, v>> items
DictHas(d, k) == \E i \in 1..Len(d) : d[i][1] = k

DictGet(d, k) == LET i == CHOOSE i \in 1..Len(d) : d[i][1] = k IN d[i][2]

\* d[k] = v: a key already present keeps its position
DictSet(d, k, v) ==
    IF DictHas(d, k)
    THEN [j \in 1..Len(d) |-> IF d[j][1] = k THEN <<k, v>> ELSE d[j]]
    ELSE Append(d, <<k, v>>)

DictKeys(d) == {d[j][1] : j \in 1..Len(d)}

\* a string that starts with a rule's prefix: f'{prefix} {val}'
Prefixed(prefix, val) == <<"pstr", prefix, val>>

StartsWith(val, prefix) == val[1] = "pstr" /\ val[2] = prefix

(***************************************************************************)
(* Timestamps.  One tick of the clock is one hour.  A timestamp string is  *)
(* its local date and time followed by its suffix: the UTC offset for the  *)
(* field updated of Jira ("2023-12-10T10:00:00.000+0800"), nothing but the *)
(* fraction for datetime.now().isoformat() ("2023-12-10T10:00:00.123456"). *)
(***************************************************************************)
Stamp(loc, off) == <<"ts", loc, TRUE, off>>

NaiveStamp(loc) == <<"ts", loc, FALSE, 0>>

\* field_value.split('T')[0]
DateOf(x) == <<"date", x[2] \div 24>>

IsStamp(x) == x[1] = "ts"

IsString(x) == x[1] \in {"str", "pstr", "ts", "date"}

\* the characters of the string as a tuple that orders like the string:
\* day, hour, then the suffix ('+' < '-' < a digit)
StrKey(x) ==
    IF x[1] = "date" THEN <<x[2], -1, 0, 0>>
    ELSE <<x[2] \div 24, x[2] % 24,
           IF ~x[3] THEN 2 ELSE IF x[4] >= 0 THEN 0 ELSE 1,
           IF ~x[3] THEN 0 ELSE IF x[4] >= 0 THEN x[4] ELSE -x[4]>>

\* Python's a < b on two such strings
StrLess(a, b) ==
    LET ka == StrKey(a)
        kb == StrKey(b)
    IN  \E n \in 1..4 : ka[n] < kb[n] /\ \A j \in 1..(n - 1) : ka[j] = kb[j]

StrLeq(a, b) == ~StrLess(b, a)

(***************************************************************************)
(* Field mapping rules (one entry of jira_field_mapping.json)              *)
(***************************************************************************)
\* the field ids of the model whose text contains "customfield"
CustomfieldIds == {"customfield_10037", "customfield_10229", "customfield_cid",
                   "customfield_lst", "customfield_static",
                   "customfield_20001", "customfield_20002"}

IsCustomfieldId(id) == id \in CustomfieldIds

\* a rule with every key the scripts read; a key that is absent from the
\* JSON entry holds the default the code's .get() gives it
DefaultRule ==
    [strategy |-> "DIRECT_COPY", type |-> "custom", fieldId |-> "",
     sourceFieldId |-> "", targetFieldId |-> "", syncDirection |-> "S2T",
     valueMapping |-> <<>>, reverseMapping |-> <<>>,
     static_value |-> None, staticValue |-> None,
     triggerOn |-> {"CREATE", "UPDATE"}, metadataType |-> "", prefix |-> "",
     dataType |-> ""]

\* the fields an issue of the model carries
FieldIds == CustomfieldIds \cup {"summary"}

\* issue['fields'].get(field)
FieldGet(issue, field) ==
    IF field \in DOMAIN issue.fields THEN issue.fields[field] ELSE None

(***************************************************************************)
(* FieldProcessor.resolve_value (src/sync_issues.py)                       *)
(***************************************************************************)
\* the lookup on the field value as it comes, a wrapped one included
ExtractRaw_whole(input_val) == input_val

\* raw_val = input_val.get('name') or input_val.get('value') or input_val
ExtractRaw(input_val) ==
    IF IsDict(input_val)
    THEN IF Truthy(input_val[2]) THEN input_val[2]
         ELSE IF Truthy(input_val[3]) THEN input_val[3]
         ELSE input_val
    ELSE input_val

\* the scan keeping the last matching item instead of returning at the first
RECURSIVE ImplicitReverse_last(_, _)
ImplicitReverse_last(forward_map, raw_val) ==
    IF forward_map = <<>> THEN None
    ELSE LET rest == ImplicitReverse_last(Tail(forward_map), raw_val)
         IN  IF rest # None THEN rest
             ELSE IF Str(Head(forward_map)[2]) = raw_val
             THEN Dict(None, Str(Head(forward_map)[1]))
             ELSE None

\* for k, v in forward_map.items(): if v == raw_val: return {"value": k}
RECURSIVE ImplicitReverse(_, _)
ImplicitReverse(forward_map, raw_val) ==
    IF forward_map = <<>> THEN None
    ELSE IF Str(Head(forward_map)[2]) = raw_val
         THEN Dict(None, Str(Head(forward_map)[1]))
         ELSE ImplicitReverse(Tail(forward_map), raw_val)

\* the two lookups of direction T2S in the opposite order
MappedT2S_implicit_first(raw_val, config_item) ==
    IF ImplicitReverse(config_item.valueMapping, raw_val) # None
    THEN ImplicitReverse(config_item.valueMapping, raw_val)
    ELSE IF raw_val[1] = "str" /\ DictHas(config_item.reverseMapping, raw_val[2])
    THEN Dict(None, Str(DictGet(config_item.reverseMapping, raw_val[2])))
    ELSE None

\* direction T2S: the explicit reverseMapping first, the scan of valueMapping next
MappedT2S(raw_val, config_item) ==
    IF raw_val[1] = "str" /\ DictHas(config_item.reverseMapping, raw_val[2])
    THEN Dict(None, Str(DictGet(config_item.reverseMapping, raw_val[2])))
    ELSE ImplicitReverse(config_item.valueMapping, raw_val)

\* direction S2T: the table lookup and the shape of the result
MappedS2T(raw_val, config_item) ==
    LET mapping == config_item.valueMapping
        mapped_val == IF raw_val[1] = "str" /\ DictHas(mapping, raw_val[2])
                      THEN Str(DictGet(mapping, raw_val[2]))
                      ELSE None
    IN  IF Truthy(mapped_val)
        THEN IF config_item.type = "system" /\ config_item.fieldId = "priority"
             THEN Dict(mapped_val, None)
             ELSE IF config_item.type = "custom" \/ IsCustomfieldId(config_item.targetFieldId)
             THEN Dict(None, mapped_val)
             ELSE mapped_val
        ELSE None

\* a dict or a list cannot be the key of a dict lookup: mapping.get(raw_val)
\* and raw_val in reverse_map raise TypeError (unhashable type) for them
Hashable(x) == x[1] \notin {"dict", "list", "doc"}

\* the call ends with that exception instead of a return value
Raised == <<"raise", "TypeError">>

\* lines 456 and 477: the lookup hashes raw_val before anything else
Lookup(raw_val, found) == IF Hashable(raw_val) THEN found ELSE Raised

resolve_value(input_val, config_item, direction) ==
    CASE config_item.strategy = "STATIC_VALUE"  ->
            IF IsDict(config_item.static_value) THEN config_item.static_value[3]
            ELSE config_item.static_value
      [] config_item.strategy = "SYNC_METADATA" -> None
      [] config_item.strategy = "DIRECT_COPY"   -> input_val
      [] config_item.strategy = "MAPPED_SYNC"   ->
            IF direction = "S2T"
            THEN Lookup(ExtractRaw(input_val), MappedS2T(ExtractRaw(input_val), config_item))
            ELSE IF direction = "T2S"
            THEN Lookup(ExtractRaw(input_val), MappedT2S(ExtractRaw(input_val), config_item))
            ELSE None
      [] OTHER -> None

(***************************************************************************)
(* FieldProcessor.resolve_value of the older script (src/sync_demo.py)     *)
(***************************************************************************)
\* raw_val = input_val.get('name') or input_val.get('value')
DemoExtractRaw(input_val) ==
    IF IsDict(input_val)
    THEN IF Truthy(input_val[2]) THEN input_val[2] ELSE input_val[3]
    ELSE input_val

demo_resolve_value(input_val, config_item, direction) ==
    CASE config_item.strategy = "STATIC_VALUE" -> config_item.static_value
      [] config_item.strategy = "DIRECT_COPY"  -> input_val
      [] config_item.strategy = "MAPPED_SYNC"  ->
            LET raw_val == DemoExtractRaw(input_val)
            IN  IF direction \in {"S2T", "T2S"} /\ ~Hashable(raw_val) THEN Raised
                ELSE IF direction = "S2T"
                THEN IF raw_val[1] = "str" /\ DictHas(config_item.valueMapping, raw_val[2])
                        /\ DictGet(config_item.valueMapping, raw_val[2]) # ""
                     THEN Dict(None, Str(DictGet(config_item.valueMapping, raw_val[2])))
                     ELSE None
                ELSE IF direction = "T2S"
                THEN IF raw_val[1] = "str" /\ DictHas(config_item.reverseMapping, raw_val[2])
                     THEN Dict(None, Str(DictGet(config_item.reverseMapping, raw_val[2])))
                     ELSE ImplicitReverse(config_item.valueMapping, raw_val)
                ELSE None
      [] OTHER -> None

(***************************************************************************)
(* JiraSyncEngine.get_reverse_value (src/jira_sync.py)                     *)
(***************************************************************************)
\* reverse_map = {v: k for k, v in forward_map.items()}: a later item with
\* the same value replaces the earlier one
RECURSIVE BuildReverseMap(_, _)
BuildReverseMap(forward_map, acc) ==
    IF forward_map = <<>> THEN acc
    ELSE LET k == Head(forward_map)[1]
             v == Head(forward_map)[2]
             at == IF DictHas(acc, v)
                   THEN [j \in 1..Len(acc) |-> IF acc[j][1] = v THEN <<v, k>> ELSE acc[j]]
                   ELSE Append(acc, <<v, k>>)
         IN  BuildReverseMap(Tail(forward_map), at)

get_reverse_value(target_value, config_item) ==
    LET reverse_map == BuildReverseMap(config_item.valueMapping, <<>>)
        explicit_defaults == config_item.reverseMapping
    IN  IF target_value[1] = "str" /\ DictHas(explicit_defaults, target_value[2])
        THEN Str(DictGet(explicit_defaults, target_value[2]))
        ELSE IF target_value[1] = "str" /\ DictHas(reverse_map, target_value[2])
        THEN Str(DictGet(reverse_map, target_value[2]))
        ELSE None

(***************************************************************************)
(* FieldProcessor: value formats and payloads (src/sync_issues.py)         *)
(***************************************************************************)
OptionTypes == {"option", "select", "com.atlassian.jira.plugin.system.customfieldtypes:select"}

ArrayTypes == {"array", "multiselect",
               "com.atlassian.jira.plugin.system.customfieldtypes:multiselect"}

PlainTypes == {"string", "text", "textarea", "number", "float"}

DateTypes == {"date", "datetime"}

format_field_value(field_value, config_item) ==
    IF IsDict(field_value) THEN field_value
    ELSE CASE config_item.dataType \in OptionTypes -> Dict(None, field_value)
           [] config_item.dataType \in ArrayTypes  -> <<"list", Dict(None, field_value)>>
           [] config_item.dataType \in PlainTypes  -> field_value
           [] config_item.dataType \in DateTypes   ->
                  IF IsStamp(field_value) THEN DateOf(field_value) ELSE field_value
           [] OTHER ->
                  IF IsCustomfieldId(config_item.targetFieldId) /\ IsString(field_value)
                  THEN Dict(None, field_value)
                  ELSE field_value

\* A rich document (ADF) is {type: doc, content: [block, ...]}; a block is
\* {type, content: [node, ...]}; a node is a text run {type: text, text} or a
\* node of another type.  A block without the key content has the content [].
Doc(blocks) == <<"doc", blocks>>

IsDoc(x) == x[1] = "doc"

Block(type, content) == [type |-> type, content |-> content]

TextNode(text) == [type |-> "text", text |-> text]

\* {"type": "text", "text": f"{prefix} "}
PrefixNode(prefix) == TextNode(Prefixed(prefix, Str("")))

InsertAt(seq, i, x) ==
    [j \in 1..(Len(seq) + 1) |-> IF j < i THEN seq[j] ELSE IF j = i THEN x ELSE seq[j - 1]]

\* FieldProcessor.add_prefix_to_adf on the deep copy of a document
add_prefix_to_adf(adf_content, prefix) ==
    LET content == adf_content[2]
        texts(b) == {i \in 1..Len(content[b].content) : content[b].content[i].type = "text"}
        \* the paragraphs that hold a text run
        hits == {b \in 1..Len(content) : content[b].type = "paragraph" /\ texts(b) # {}}
        b0 == CHOOSE b \in hits : \A c \in hits : b <= c
        i0 == CHOOSE i \in texts(b0) : \A j \in texts(b0) : i <= j
    IN  IF hits # {}
        THEN IF StartsWith(content[b0].content[i0].text, prefix) THEN adf_content
             ELSE Doc([content EXCEPT ![b0].content = InsertAt(@, i0, PrefixNode(prefix))])
        ELSE IF content # <<>> /\ content[1].type = "paragraph"
        THEN Doc([content EXCEPT ![1].content = InsertAt(@, 1, PrefixNode(prefix))])
        ELSE Doc(<<Block("paragraph", <<PrefixNode(prefix)>>)>>)

\* the prefix handling of both payload builders: the document branch, then
\* the string branch (if not val.startswith(prefix))
ApplyPrefix(val, prefix) ==
    IF prefix = "" THEN val
    ELSE IF IsDoc(val) THEN add_prefix_to_adf(val, prefix)
    ELSE IF IsString(val) /\ ~StartsWith(val, prefix) THEN Prefixed(prefix, val)
    ELSE val

SourceFieldOf(item) == IF item.type = "system" THEN item.fieldId ELSE item.sourceFieldId

TargetFieldOf(item) == IF item.type = "system" THEN item.fieldId ELSE item.targetFieldId

\* item.get('staticValue', item.get('static_value', {}))
StaticOf(item) ==
    IF item.staticValue # None THEN item.staticValue
    ELSE IF item.static_value # None THEN item.static_value
    ELSE Dict(None, None)

\* the loop without the test of syncDirection
CreateRule_every_direction(fields, item, source_issue) ==
    LET source_field == SourceFieldOf(item)
        target_field == TargetFieldOf(item)
        src_val      == FieldGet(source_issue, source_field)
        target_val   == resolve_value(src_val, item, "S2T")
    IN  IF item.strategy = "SYNC_METADATA" THEN fields
        ELSE IF item.strategy = "STATIC_VALUE" /\ "CREATE" \in item.triggerOn THEN fields
        ELSE IF source_field = "" \/ target_field = "" THEN fields
        ELSE IF item.type = "system" /\ source_field = "attachment" THEN fields
        ELSE IF src_val = None THEN fields
        ELSE IF target_val = None THEN fields
        ELSE DictSet(fields, target_field, ApplyPrefix(target_val, item.prefix))

\* one iteration of the loop of prepare_create_payload
CreateRule(fields, item, source_issue) ==
    LET source_field == SourceFieldOf(item)
        target_field == TargetFieldOf(item)
        src_val      == FieldGet(source_issue, source_field)
        target_val   == resolve_value(src_val, item, "S2T")
    IN  IF item.syncDirection \notin {"S2T", "BIDIRECTIONAL"} THEN fields
        ELSE IF item.strategy = "SYNC_METADATA" THEN fields
        ELSE IF item.strategy = "STATIC_VALUE" /\ "CREATE" \in item.triggerOn THEN fields
        ELSE IF source_field = "" \/ target_field = "" THEN fields
        ELSE IF item.type = "system" /\ source_field = "attachment" THEN fields
        ELSE IF src_val = None THEN fields
        ELSE IF target_val = None THEN fields
        ELSE DictSet(fields, target_field, ApplyPrefix(target_val, item.prefix))

prepare_create_payload(mapping_config, source_issue, target_project_key, issue_type) ==
    LET RECURSIVE Loop(_)
        Loop(n) == IF n = 0
                   THEN << <<"project", Str(target_project_key)>>,
                           <<"issuetype", Str(issue_type)>> >>
                   ELSE CreateRule(Loop(n - 1), mapping_config[n], source_issue)
    IN  Loop(Len(mapping_config))

\* one iteration of the loop of prepare_update_payload
UpdateRule(update_fields, item, source_issue, target_issue, direction, current_time) ==
    LET source_field == SourceFieldOf(item)
        target_field == TargetFieldOf(item)
        src_val      == FieldGet(source_issue, source_field)
        tgt_val      == FieldGet(target_issue, target_field)
        static_value == StaticOf(item)
    IN  IF item.syncDirection # "BIDIRECTIONAL" /\ item.syncDirection # direction
        THEN update_fields
        ELSE IF item.strategy = "STATIC_VALUE"
        THEN IF "UPDATE" \notin item.triggerOn \/ item.targetFieldId = "" THEN update_fields
             ELSE DictSet(update_fields, item.targetFieldId,
                          IF IsDict(static_value) THEN static_value[3] ELSE static_value)
        ELSE IF item.strategy = "SYNC_METADATA"
        THEN IF item.metadataType = "last_sync_time" /\ item.targetFieldId # ""
             THEN DictSet(update_fields, item.targetFieldId, current_time)
             ELSE update_fields
        ELSE IF source_field = "" \/ target_field = "" THEN update_fields
        ELSE IF direction = "S2T"
        THEN IF item.type = "system" /\ source_field = "attachment" THEN update_fields
             ELSE IF src_val = None THEN update_fields
             ELSE IF resolve_value(src_val, item, "S2T") = None THEN update_fields
             ELSE DictSet(update_fields, target_field,
                          ApplyPrefix(resolve_value(src_val, item, "S2T"), item.prefix))
        ELSE IF direction = "T2S"
        THEN IF item.type = "system" /\ target_field = "attachment" THEN update_fields
             ELSE IF tgt_val = None THEN update_fields
             ELSE IF resolve_value(tgt_val, item, "T2S") = None THEN update_fields
             ELSE DictSet(update_fields, source_field, resolve_value(tgt_val, item, "T2S"))
        ELSE update_fields

prepare_update_payload(mapping_config, source_issue, target_issue, direction, current_time) ==
    LET RECURSIVE Loop(_)
        Loop(n) == IF n = 0 THEN <<>>
                   ELSE UpdateRule(Loop(n - 1), mapping_config[n], source_issue,
                                   target_issue, direction, current_time)
    IN  Loop(Len(mapping_config))

\* the first rule of the given metadata type, 0 when there is none
MetadataRuleAt(rules, metadataType) ==
    LET hits == {n \in 1..Len(rules) : /\ rules[n].strategy = "SYNC_METADATA"
                                       /\ rules[n].metadataType = metadataType}
    IN  IF hits = {} THEN 0 ELSE CHOOSE n \in hits : \A j \in hits : n <= j

\* the targetFieldId of that rule; "" stands for None
get_customer_issue_id_field_info(rules) ==
    IF MetadataRuleAt(rules, "customer_issue_id") = 0 THEN ""
    ELSE rules[MetadataRuleAt(rules, "customer_issue_id")].targetFieldId

get_last_sync_time_field(rules) ==
    IF MetadataRuleAt(rules, "last_sync_time") = 0 THEN ""
    ELSE rules[MetadataRuleAt(rules, "last_sync_time")].targetFieldId

(***************************************************************************)
(* Arguments of the value resolvers, drawn from bounded sets               *)
(***************************************************************************)
MaxMapLen == 2

SourceValues == {"Sev-0", "Sev-1", "Sev-2"}

TargetValues == {"Low", "Medium"}

\* the table of the documentation's example
ExampleTable ==
    << <<"Sev-0", "Low">>, <<"Sev-1", "Medium">>, <<"Sev-2", "Medium">>, <<"Sev-3", "High">> >>

\* JSON objects: no key occurs twice
TablesOfLen(n) ==
    {t \in [1..n -> SourceValues \X TargetValues] :
        \A i, j \in 1..n : i # j => t[i][1] # t[j][1]}

MappingTables == UNION {TablesOfLen(n) : n \in 0..MaxMapLen} \cup {ExampleTable}

ReverseTables == {<<>>} \cup {<< <<v, k>> >> : v \in TargetValues, k \in SourceValues}

\* strings, objects with a name or a value sub-field, an object with neither
\* (a user: accountId, displayName), an array (a multi-select field)
ResolverInputs ==
    {Str("Low"), Str("Medium"), Str("Sev-1"), Str("Other"),
     Dict(Str("Medium"), None), Dict(None, Str("Medium")),
     Dict(None, None), <<"list", Dict(None, Str("Sev-1"))>>}

\* system priority field, custom field, any other system field
RuleShapes ==
    {[type |-> "system", fieldId |-> "priority", targetFieldId |-> ""],
     [type |-> "custom", fieldId |-> "", targetFieldId |-> "customfield_10229"],
     [type |-> "system", fieldId |-> "labels", targetFieldId |-> ""]}

CustomShape == [type |-> "custom", fieldId |-> "", targetFieldId |-> "customfield_10229"]

MappedRule(table, reverse, shape) ==
    [DefaultRule EXCEPT !.strategy = "MAPPED_SYNC", !.syncDirection = "BIDIRECTIONAL",
                        !.type = shape.type, !.fieldId = shape.fieldId,
                        !.sourceFieldId = "customfield_10037",
                        !.targetFieldId = shape.targetFieldId,
                        !.valueMapping = table, !.reverseMapping = reverse]

Unset == <<"unset">>

\* arg: the document handed to add_prefix_to_adf, as the call leaves it
NoPayload == [fn |-> "", direction |-> "", arg |-> None, out |-> Unset]

NoCall ==
    [fn |-> "", table |-> <<>>, reverse |-> <<>>, input |-> None,
     direction |-> "", shape |-> CustomShape, out |-> Unset]

ResolverCalls ==
    {[fn |-> "sync_issues", table |-> t, reverse |-> r, input |-> x,
      direction |-> "S2T", shape |-> sh, out |-> Unset] :
        t \in MappingTables, r \in ReverseTables, x \in ResolverInputs, sh \in RuleShapes}
    \cup
    {[fn |-> f, table |-> t, reverse |-> r, input |-> x,
      direction |-> "T2S", shape |-> CustomShape, out |-> Unset] :
        f \in {"sync_issues", "sync_demo", "jira_sync"},
        t \in MappingTables, r \in ReverseTables, x \in ResolverInputs}
    \cup
    {[fn |-> "sync_demo", table |-> t, reverse |-> r, input |-> x,
      direction |-> "S2T", shape |-> CustomShape, out |-> Unset] :
        t \in MappingTables, r \in ReverseTables, x \in ResolverInputs}

(***************************************************************************)
(* Attachment merge: sync_attachments, one step per loop iteration         *)
(***************************************************************************)
\* a failed remote call counts against the budget of failures: MaxFailures
\* for a merge on its own, MaxRunFailures for the calls of a run of run_sync
Fails(b) == IF b THEN 0 ELSE 1

FailureBudget == IF run.pc = "idle" THEN MaxFailures ELSE MaxRunFailures

IdleMerge ==
    [pc |-> "idle", skey |-> "", tkey |-> "", srcList |-> <<>>, tgtList |-> <<>>,
     srcMap |-> {}, tgtMap |-> {}, localSet |-> {}, i |-> 1,
     ok |-> TRUE, listsOk |-> TRUE, uploads |-> <<>>, pre |-> {},
     tried |-> {}, failed |-> {}, whole |-> {}]

\* tried, failed: the stripped names whose download was attempted, and failed
\* without a later download of the name succeeding, in the call; whole: the stripped names of the files that were staged in
\* full when the call began
NoRun ==
    [ran |-> FALSE, skey |-> "", tkey |-> "", ok |-> TRUE, listsOk |-> TRUE,
     uploads |-> <<>>, src |-> {}, tgt |-> {}, pre |-> {}, quiet |-> TRUE,
     tried |-> {}, failed |-> {}, whole |-> {}]

\* JiraClient.get_issue_attachments: the list of the issue, or [] when the
\* response is not 200
get_issue_attachments(att, key, responseOk) ==
    IF responseOk THEN att[key] ELSE <<>>

\* the four loops of sync_attachments, in program order
NextPhase(pc) ==
    CASE pc = "dl_src" -> "dl_tgt"
      [] pc = "dl_tgt" -> "up_s2t"
      [] pc = "up_s2t" -> "up_t2s"
      [] OTHER         -> "done"

PhaseList(m, pc) ==
    IF pc \in {"dl_src", "up_s2t"} THEN m.srcList ELSE m.tgtList

\* the next loop iteration that exists, from position (pc, i) on
RECURSIVE Position(_, _, _)
Position(m, pc, i) ==
    IF pc = "done" THEN <<"done", 1>>
    ELSE IF i <= Len(PhaseList(m, pc)) THEN <<pc, i>>
    ELSE Position(m, NextPhase(pc), 1)

Advance(m) ==
    LET p == Position(m, m.pc, m.i + 1)
    IN  [m EXCEPT !.pc = p[1], !.i = p[2]]

\* the upload that does not look at the live list
TargetHasFile_never(current_attachments, clean_name) == FALSE

\* the second look at the receiving side's live list before an upload
TargetHasFile(current_attachments, clean_name) ==
    \E t \in Range(current_attachments) : remove_prefix_from_filename(t) = clean_name

\* the next iteration of the loop over source_issues (line 1070), or the
\* summary of lines 1309-1318 after the last one
NextIssue(r) ==
    IF r.i < Len(r.source_issues)
    THEN [r EXCEPT !.pc = "loop", !.i = @ + 1]
    ELSE [r EXCEPT !.pc = "idle", !.outcome = "finished"]

\* run_sync after sync_attachments has returned: skipped_count += 1 on the
\* paths of lines 1243, 1267 and 1306-1307
ReturnFromMerge(r) ==
    NextIssue([r EXCEPT !.skipped_count = IF r.skipAfter THEN @ + 1 ELSE @])

\* return from sync_attachments once the last loop has ended
Finish(m, sA, tA) ==
    IF m.pc = "done"
    THEN /\ merge' = IdleMerge
         /\ prevRun' = lastRun
         /\ lastRun' = [ran |-> TRUE, skey |-> m.skey, tkey |-> m.tkey,
                        ok |-> m.ok, listsOk |-> m.listsOk, uploads |-> m.uploads,
                        src |-> Range(sA[m.skey]), tgt |-> Range(tA[m.tkey]),
                        pre |-> m.pre, quiet |-> ~envSince,
                        tried |-> m.tried, failed |-> m.failed, whole |-> m.whole]
         /\ envSince' = FALSE
         /\ run' = IF run.pc = "idle" THEN run ELSE ReturnFromMerge(run)
         /\ proc' = IF run.pc = "idle" THEN proc ELSE [proc EXCEPT !.done = TRUE]
    ELSE /\ merge' = m
         /\ run' = IF run.pc = "idle" THEN run ELSE [run EXCEPT !.pc = "merging"]
         /\ UNCHANGED <<lastRun, prevRun, envSince, proc>>

\* lines 752-778: directory, the two list calls, the two maps, the local names
MergeStart(skey, tkey) ==
    /\ merge.pc = "idle"
    /\ merges' = merges + 1
    /\ calls' = Append(calls, [op |-> "sync_attachments", site |-> "both", skey |-> skey,
                               key |-> tkey, fields |-> <<>>, ok |-> TRUE])
    /\ \E sOk \in BOOLEAN, tOk \in BOOLEAN :
         LET source_attachments == get_issue_attachments(srcAtt, skey, sOk)
             target_attachments == get_issue_attachments(tgtAtt, tkey, tOk)
             m0 == [IdleMerge EXCEPT
                      !.skey = skey, !.tkey = tkey,
                      !.srcList = source_attachments,
                      !.tgtList = target_attachments,
                      !.srcMap = CleanNames(Range(source_attachments)),
                      !.tgtMap = CleanNames(Range(target_attachments)),
                      !.localSet = get_local_attachments(staging[tkey]),
                      !.listsOk = sOk /\ tOk,
                      !.whole = CleanNames(staging[tkey] \ partialFiles[tkey]),
                      !.pre = CleanNames(Range(srcAtt[skey]) \cup Range(tgtAtt[tkey]))]
             p == Position(m0, "dl_src", 1)
         IN  /\ failures + Fails(sOk) + Fails(tOk) <= FailureBudget
             /\ failures' = failures + Fails(sOk) + Fails(tOk)
             /\ Finish([m0 EXCEPT !.pc = p[1], !.i = p[2]], srcAtt, tgtAtt)
    /\ UNCHANGED <<attVars, userOps, rv, pp>>
    /\ UNCHANGED <<mappings, tz, srcIssues, tgtIssues, clock, creates, runs>>

\* download_attachment_to_local + JiraClient.download_attachment:
\* <<staged files, cut-short files, success>> after the call
download_attachment_to_local(dir, part, filename, project_key, outcome) ==
    LET local_path == get_filename_with_prefix(filename, project_key)
    IN  IF local_path \in dir THEN <<dir, part, TRUE>>
        ELSE CASE outcome = "ok"           -> <<dir \cup {local_path}, part, TRUE>>
               [] outcome = "http_error"   -> <<dir, part, FALSE>>
               [] outcome = "stream_error" ->
                      <<dir \cup {local_path}, part \cup {local_path}, FALSE>>

DownloadOutcomes == {"ok", "http_error", "stream_error"}

\* one iteration of a download loop (lines 780-795 for the source list,
\* 797-812 for the target list)
DownloadStep(pc, project_key) ==
    /\ merge.pc = pc
    /\ LET filename   == PhaseList(merge, pc)[merge.i]
           clean_name == remove_prefix_from_filename(filename)
           dir        == staging[merge.tkey]
           part       == partialFiles[merge.tkey]
       IN  IF clean_name \in merge.localSet
           THEN /\ Finish(Advance(merge), srcAtt, tgtAtt)
                /\ UNCHANGED <<staging, partialFiles, failures>>
           ELSE \E outcome \in DownloadOutcomes :
                  LET r == download_attachment_to_local(dir, part, filename,
                                                        project_key, outcome)
                      transferred == get_filename_with_prefix(filename, project_key) \notin dir
                      m1 == [merge EXCEPT
                               !.localSet = IF r[3] THEN @ \cup {clean_name} ELSE @,
                               !.tried = IF transferred THEN @ \cup {clean_name} ELSE @,
                               !.failed = IF transferred /\ outcome = "ok"
                                          THEN @ \ {clean_name}
                                          ELSE IF r[3] THEN @ ELSE @ \cup {clean_name},
                               !.ok = @ /\ (r[3] \/ ~transferred)]
                  IN  /\ (~transferred => outcome = "ok")
                      /\ failures + Fails(outcome = "ok") <= FailureBudget
                      /\ failures' = failures + Fails(outcome = "ok")
                      /\ staging' = [staging EXCEPT ![merge.tkey] = r[1]]
                      /\ partialFiles' = [partialFiles EXCEPT ![merge.tkey] = r[2]]
                      /\ Finish(Advance(m1), srcAtt, tgtAtt)
    /\ UNCHANGED <<srcAtt, tgtAtt, userOps, merges, rv, pp>>
    /\ UNCHANGED <<mappings, tz, srcIssues, tgtIssues, clock, calls, creates, runs>>

DownloadSource == DownloadStep("dl_src", SourceProjectKey)

DownloadTarget == DownloadStep("dl_tgt", TargetProjectKey)

\* the site stamps the field updated of an issue that receives an attachment
Attached(key, toTarget, uploadOk) ==
    LET issues == IF toTarget THEN tgtIssues ELSE srcIssues
        off    == IF toTarget THEN tz.tgt ELSE tz.src
        hit    == uploadOk /\ key \in DOMAIN issues
        after  == IF hit
                  THEN [issues EXCEPT ![key].updated = Stamp(clock + 1 + off, off)]
                  ELSE issues
    IN  /\ clock' = IF hit THEN clock + 1 ELSE clock
        /\ srcIssues' = IF toTarget THEN srcIssues ELSE after
        /\ tgtIssues' = IF toTarget THEN after ELSE tgtIssues

\* the upload that deletes the file it has sent
AfterUpload_removes_sent_file(dir, local_path, upload_path) == dir \ {upload_path}

\* lines 871-876 and 936-941: after a successful upload only a temporary copy
\* is deleted, never the staged file itself
AfterUpload(dir, local_path, upload_path) ==
    IF upload_path # local_path THEN dir \ {upload_path} ELSE dir

\* one iteration of an upload loop (lines 816-878 towards the target,
\* 881-943 towards the source)
UploadStep(pc, project_key, toTarget) ==
    /\ merge.pc = pc
    /\ LET filename   == PhaseList(merge, pc)[merge.i]
           clean_name == remove_prefix_from_filename(filename)
           known      == IF toTarget THEN merge.tgtMap ELSE merge.srcMap
           att        == IF toTarget THEN tgtAtt ELSE srcAtt
           key        == IF toTarget THEN merge.tkey ELSE merge.skey
           local_path == get_filename_with_prefix(filename, project_key)
       IN  IF clean_name \in known
           THEN /\ Finish(Advance(merge), srcAtt, tgtAtt)
                /\ UNCHANGED <<srcAtt, tgtAtt, failures, srcIssues, tgtIssues, clock, staging>>
           ELSE \E recheckOk \in BOOLEAN, uploadOk \in BOOLEAN :
                  LET current == get_issue_attachments(att, key, recheckOk)
                      m1 == [merge EXCEPT !.listsOk = @ /\ recheckOk]
                  IN  IF TargetHasFile(current, clean_name)
                           \/ local_path \notin staging[merge.tkey]
                      THEN /\ uploadOk
                           /\ failures + Fails(recheckOk) <= FailureBudget
                           /\ failures' = failures + Fails(recheckOk)
                           /\ Finish(Advance(m1), srcAtt, tgtAtt)
                           /\ UNCHANGED <<srcAtt, tgtAtt, srcIssues, tgtIssues, clock, staging>>
                      ELSE LET \* os.path.basename(local_path) == prefixed_filename
                               upload_path == local_path
                               att2 == IF uploadOk
                                       THEN [att EXCEPT ![key] = Append(@, local_path)]
                                       ELSE att
                               sA == IF toTarget THEN srcAtt ELSE att2
                               tA == IF toTarget THEN att2 ELSE tgtAtt
                               m2 == [m1 EXCEPT
                                        !.ok = @ /\ uploadOk,
                                        !.uploads = Append(@, [toTarget |-> toTarget,
                                                               file |-> local_path,
                                                               ok |-> uploadOk,
                                                               name |-> filename,
                                                               seen |-> Range(current)])]
                           IN  /\ failures + Fails(recheckOk) + Fails(uploadOk) <= FailureBudget
                               /\ failures' = failures + Fails(recheckOk) + Fails(uploadOk)
                               /\ srcAtt' = sA
                               /\ tgtAtt' = tA
                               /\ staging' =
                                    [staging EXCEPT ![merge.tkey] =
                                        IF uploadOk
                                        THEN AfterUpload(@, local_path, upload_path)
                                        ELSE @]
                               /\ Attached(key, toTarget, uploadOk)
                               /\ Finish(Advance(m2), sA, tA)
    /\ UNCHANGED <<partialFiles, userOps, merges, rv, pp>>
    /\ UNCHANGED <<mappings, tz, calls, creates, runs>>

UploadToTarget == UploadStep("up_s2t", SourceProjectKey, TRUE)

UploadToSource == UploadStep("up_t2s", TargetProjectKey, FALSE)

(***************************************************************************)
(* The remote users: attachments are added to and removed from an issue    *)
(* by hand between two merges                                              *)
(***************************************************************************)
RemoveAt(s, n) == [j \in 1..(Len(s) - 1) |-> IF j < n THEN s[j] ELSE s[j + 1]]

\* the issue pair of the attachment specification
AttachPair == [s |-> "S1", t |-> "T1"]

RunFrame ==
    UNCHANGED <<mappings, tz, srcIssues, tgtIssues, clock, run, calls, proc, creates, runs>>

UserAddAttachment ==
    /\ merge.pc = "idle"
    /\ userOps < MaxUserOps
    /\ \E f \in UserFiles :
         \/ /\ srcAtt' = [srcAtt EXCEPT ![AttachPair.s] = Append(@, f)]
            /\ UNCHANGED tgtAtt
         \/ /\ tgtAtt' = [tgtAtt EXCEPT ![AttachPair.t] = Append(@, f)]
            /\ UNCHANGED srcAtt
    /\ userOps' = userOps + 1
    /\ envSince' = TRUE
    /\ UNCHANGED <<staging, partialFiles, merge, lastRun, prevRun, merges, failures, rv, pp>>
    /\ RunFrame

UserDeleteAttachment ==
    /\ merge.pc = "idle"
    /\ userOps < MaxUserOps
    /\ \/ /\ \E n \in 1..Len(srcAtt[AttachPair.s]) :
                srcAtt' = [srcAtt EXCEPT ![AttachPair.s] = RemoveAt(@, n)]
          /\ UNCHANGED tgtAtt
       \/ /\ \E n \in 1..Len(tgtAtt[AttachPair.t]) :
                tgtAtt' = [tgtAtt EXCEPT ![AttachPair.t] = RemoveAt(@, n)]
          /\ UNCHANGED srcAtt
    /\ userOps' = userOps + 1
    /\ envSince' = TRUE
    /\ UNCHANGED <<staging, partialFiles, merge, lastRun, prevRun, merges, failures, rv, pp>>
    /\ RunFrame

(***************************************************************************)
(* The world of run_sync: mapping tables, time zones, issues               *)
(***************************************************************************)
SummaryRule ==
    [DefaultRule EXCEPT !.strategy = "DIRECT_COPY", !.type = "system",
                        !.fieldId = "summary", !.syncDirection = "S2T"]

SeverityRule == MappedRule(ExampleTable, <<>>, CustomShape)

AttachmentRule ==
    [DefaultRule EXCEPT !.strategy = "DIRECT_COPY", !.type = "system",
                        !.fieldId = "attachment", !.syncDirection = "BIDIRECTIONAL"]

CidRule ==
    [DefaultRule EXCEPT !.strategy = "SYNC_METADATA", !.metadataType = "customer_issue_id",
                        !.targetFieldId = "customfield_cid", !.dataType = "string"]

LstRule ==
    [DefaultRule EXCEPT !.strategy = "SYNC_METADATA", !.metadataType = "last_sync_time",
                        !.targetFieldId = "customfield_lst",
                        !.syncDirection = "BIDIRECTIONAL"]

StaticRule ==
    [DefaultRule EXCEPT !.strategy = "STATIC_VALUE", !.targetFieldId = "customfield_static",
                        !.staticValue = Dict(None, Str("Synced")), !.triggerOn = {"CREATE"}]

\* a static value meant for the source site only, triggered on CREATE
StaticT2SRule ==
    [StaticRule EXCEPT !.staticValue = Dict(None, Str("Replied")), !.syncDirection = "T2S"]

FullConfig == <<SummaryRule, SeverityRule, AttachmentRule, CidRule, LstRule, StaticRule>>

\* the full table; one without the customer_issue_id rule; one without the
\* last_sync_time rule, whose static rule is declared for T2S
MappingConfigs ==
    {FullConfig,
     <<SummaryRule, SeverityRule, LstRule, StaticRule>>,
     <<SummaryRule, CidRule, StaticT2SRule>>}

SameZone == [src |-> 0, tgt |-> 0, host |-> 0]

\* UTC offsets, in hours, of the two sites and of the host running the script
TimeZones ==
    {SameZone,
     [src |-> 8, tgt |-> 0, host |-> 0],
     [src |-> 0, tgt |-> 0, host |-> 8]}

\* the installations: every table in one time zone, the full table in every one
Installations ==
    {<<m, SameZone>> : m \in MappingConfigs} \cup {<<FullConfig, z>> : z \in TimeZones}

\* the instant a Jira timestamp denotes
Instant(x) == x[2] - x[4]

BlankFields == [f \in FieldIds |-> None]

\* a site stores the fields of an accepted request
Written(fields, request) ==
    [f \in FieldIds |-> IF DictHas(request, f) THEN DictGet(request, f) ELSE fields[f]]

Call(op, site, skey, key, fields, ok) ==
    [op |-> op, site |-> site, skey |-> skey, key |-> key, fields |-> fields, ok |-> ok]

\* a remote call answers with success, with an error status, or raises
RemoteOutcomes == {"ok", "rejected", "raise"}

(***************************************************************************)
(* run_sync (src/sync_issues.py, lines 945-1318)                           *)
(***************************************************************************)
DEBUG_MODE == TRUE

DebugIssueKey == "SRC-27979"

IdleRun ==
    [pc |-> "idle", outcome |-> "none", source_issues |-> <<>>, target_map |-> <<>>,
     i |-> 1, skey |-> "", tkey |-> "", skipAfter |-> FALSE,
     created_count |-> 0, updated_count |-> 0, skipped_count |-> 0,
     synced |-> {}, earlier |-> {}]

\* synced: the source keys of the pairs whose field-update call the site has
\* accepted in this run; earlier: the same of the run before
StartedRun == [IdleRun EXCEPT !.earlier = run.synced]

NoProc ==
    [skey |-> "", tkey |-> "", path |-> "none", createOk |-> FALSE, short |-> FALSE,
     direction |-> "NONE", s_time |-> None, t_time |-> None, last_sync_time |-> None,
     update_fields |-> <<>>, attempts |-> <<>>, done |-> FALSE, answer |-> "none",
     before |-> [created |-> 0, updated |-> 0, skipped |-> 0]]

Tallies(r) ==
    [created |-> r.created_count, updated |-> r.updated_count, skipped |-> r.skipped_count]

Crashed(r) == [r EXCEPT !.pc = "idle", !.outcome = "crashed"]

Perms(S) == {f \in [1..Cardinality(S) -> S] : \A i, j \in 1..Cardinality(S) : i # j => f[i] # f[j]}

\* search_issues with ORDER BY updated DESC: any order the site may answer with
SourceSearch ==
    {l \in Perms(DOMAIN srcIssues) :
        \A i, j \in 1..Len(l) :
            i < j => Instant(srcIssues[l[i]].updated) >= Instant(srcIssues[l[j]].updated)}

\* lines 1018-1027: only the debug issue when the search returned it
DebugFilter(source_issues) ==
    LET filtered_issues == SelectSeq(source_issues, LAMBDA k : k = DebugIssueKey)
    IN  IF DEBUG_MODE /\ filtered_issues # <<>> THEN filtered_issues ELSE source_issues

\* lines 1035-1044: "<field> is not EMPTY" when the field is configured
TargetSearch(customer_issue_id_field) ==
    IF customer_issue_id_field # ""
    THEN {t \in DOMAIN tgtIssues : FieldGet(tgtIssues[t], customer_issue_id_field) # None}
    ELSE DOMAIN tgtIssues

\* lines 1052-1055: remote_val.get('value') or remote_val.get('name')
RemoteVal(v) ==
    IF IsDict(v) THEN (IF Truthy(v[3]) THEN v[3] ELSE v[2]) ELSE v

\* str(remote_val)
KeyText(v) == IF v[1] = "str" THEN v[2] ELSE "other"

\* lines 1048-1060: the maps the loop can build; of two found issues with the
\* same key the one later in the answer stays
TargetMaps(found, customer_issue_id_field) ==
    LET kept == IF customer_issue_id_field = "" THEN {}
                ELSE {t \in found :
                        Truthy(RemoteVal(FieldGet(tgtIssues[t], customer_issue_id_field)))}
        keyOf(t) == KeyText(RemoteVal(FieldGet(tgtIssues[t], customer_issue_id_field)))
    IN  {m \in [{keyOf(t) : t \in kept} -> kept] : \A k \in DOMAIN m : keyOf(m[k]) = k}

\* the test that looks at the source site only
ConnectionsOk_source_only(source_ok, target_ok) == source_ok

\* line 982: if not source_ok or not target_ok: return
ConnectionsOk(source_ok, target_ok) == source_ok /\ target_ok

\* lines 945-1068: configuration, connection tests, the two searches, the map
RunStart ==
    /\ run.pc = "idle" /\ merge.pc = "idle"
    /\ runs < MaxRuns
    /\ runs' = runs + 1
    /\ proc' = NoProc
    /\ lastRun' = NoRun /\ prevRun' = NoRun /\ envSince' = FALSE
    /\ \E source_ok \in BOOLEAN, target_ok \in BOOLEAN,
          source_search \in {"ok", "raise"}, target_search \in {"ok", "raise"} :
         LET customer_issue_id_field == get_customer_issue_id_field_info(mappings)
             tests == <<Call("test_connection", "source", "", "", <<>>, source_ok),
                        Call("test_connection", "target", "", "", <<>>, target_ok)>>
             s_call == Call("search_issues", "source", "", "", <<>>, source_search = "ok")
             t_call == Call("search_issues", "target", "", "", <<>>, target_search = "ok")
             failed == Fails(source_ok) + Fails(target_ok)
                         + Fails(source_search = "ok") + Fails(target_search = "ok")
         IN  /\ failures + failed <= MaxRunFailures
             /\ failures' = failures + failed
             /\ IF ~ConnectionsOk(source_ok, target_ok)
                THEN /\ source_search = "ok" /\ target_search = "ok"
                     /\ calls' = tests
                     /\ run' = [StartedRun EXCEPT !.outcome = "aborted"]
                ELSE IF source_search = "raise"
                THEN /\ target_search = "ok"
                     /\ calls' = Append(tests, s_call)
                     /\ run' = Crashed(StartedRun)
                ELSE IF target_search = "raise"
                THEN /\ calls' = tests \o <<s_call, t_call>>
                     /\ run' = Crashed(StartedRun)
                ELSE /\ calls' = tests \o <<s_call, t_call>>
                     /\ \E answer \in SourceSearch :
                        \E target_map \in TargetMaps(TargetSearch(customer_issue_id_field),
                                                     customer_issue_id_field) :
                          run' = [StartedRun EXCEPT !.pc = "loop", !.outcome = "running",
                                                 !.source_issues = DebugFilter(answer),
                                                 !.target_map = target_map]
    /\ UNCHANGED <<attVars, merge, userOps, merges, rv, pp>>
    /\ UNCHANGED <<mappings, tz, srcIssues, tgtIssues, clock, creates>>

\* lines 1096-1151: the fields set after the create call, as the dict is filled
PostCreateFields(rules, s_key, current_time) ==
    LET customer_issue_id_field == get_customer_issue_id_field_info(rules)
        last_sync_time_field    == get_last_sync_time_field(rules)
        withCid == IF customer_issue_id_field # ""
                   THEN <<  <<customer_issue_id_field,
                              format_field_value(Str(s_key),
                                  rules[MetadataRuleAt(rules, "customer_issue_id")])>> >>
                   ELSE <<>>
        withLst == IF last_sync_time_field # ""
                   THEN DictSet(withCid, last_sync_time_field,
                                format_field_value(current_time,
                                    rules[MetadataRuleAt(rules, "last_sync_time")]))
                   ELSE withCid
        actual_value(item) ==
            IF IsDict(StaticOf(item)) /\ StaticOf(item)[3] # None
            THEN StaticOf(item)[3] ELSE StaticOf(item)
        RECURSIVE Statics(_)
        Statics(n) ==
            IF n = 0 THEN withLst
            ELSE IF /\ rules[n].strategy = "STATIC_VALUE"
                    /\ "CREATE" \in rules[n].triggerOn
                    /\ rules[n].targetFieldId # ""
                 THEN DictSet(Statics(n - 1), rules[n].targetFieldId,
                              format_field_value(actual_value(rules[n]), rules[n]))
                 ELSE Statics(n - 1)
    IN  Statics(Len(rules))

\* the loop that stops at the first field the site rejects
PostCreateAttempts_stop_at_rejection(post_create_fields, rejected) ==
    LET first == {n \in 1..Len(post_create_fields) : post_create_fields[n][1] \in rejected}
        last  == IF first = {} THEN Len(post_create_fields)
                 ELSE CHOOSE n \in first : \A j \in first : n <= j
    IN  [n \in 1..last |->
            [field |-> post_create_fields[n][1], value |-> post_create_fields[n][2],
             ok |-> post_create_fields[n][1] \notin rejected]]

\* lines 1159-1189: one PUT per field of post_create_fields, each on its own
PostCreateAttempts(post_create_fields, rejected) ==
    [n \in 1..Len(post_create_fields) |->
        [field |-> post_create_fields[n][1], value |-> post_create_fields[n][2],
         ok |-> post_create_fields[n][1] \notin rejected]]

\* successful_fields
SuccessfulFields(attempts) ==
    LET RECURSIVE Loop(_)
        Loop(n) == IF n = 0 THEN <<>>
                   ELSE IF attempts[n].ok
                        THEN Append(Loop(n - 1), <<attempts[n].field, attempts[n].value>>)
                        ELSE Loop(n - 1)
    IN  Loop(Len(attempts))

\* the key the target site gives to the next issue it creates
FreeTargetKeys == TargetKeys \ DOMAIN tgtIssues

NewTargetKey ==
    TargetKeySeq[CHOOSE n \in 1..MaxTargets :
                    /\ TargetKeySeq[n] \in FreeTargetKeys
                    /\ \A j \in 1..(n - 1) : TargetKeySeq[j] \notin FreeTargetKeys]

\* the loop that takes no source key for matched
InTargetMap_never(s_key, target_map) == FALSE

\* line 1074: s_key in target_map
InTargetMap(s_key, target_map) == s_key \in DOMAIN target_map

\* the loop that ends at a create call the site does not accept
AfterFailedCreate_gives_up(r, created) ==
    IF created = "raise" THEN Crashed(r)
    ELSE [r EXCEPT !.pc = "idle", !.outcome = "finished"]

\* lines 1092-1093: create_issue returned None and the loop takes the next
\* issue; an exception of requests.post is caught nowhere
AfterFailedCreate(r, created) ==
    IF created = "raise" THEN Crashed(r) ELSE NextIssue(r)

\* lines 1074-1211: no entry in the map for the source key
CreatePath ==
    /\ run.pc = "loop"
    /\ ~InTargetMap(run.source_issues[run.i], run.target_map)
    /\ LET s_key   == run.source_issues[run.i]
           s_issue == srcIssues[s_key]
           payload == prepare_create_payload(mappings, s_issue, TargetProjectKey, "Bug")
           p0      == [NoProc EXCEPT !.skey = s_key, !.path = "create",
                                     !.before = Tallies(run)]
       IN  \E created \in RemoteOutcomes :
             IF created = "ok"
             THEN /\ FreeTargetKeys # {}
                  /\ LET new_key      == NewTargetKey
                         current_time == NaiveStamp(clock + 1 + tz.host)
                         post_create_fields ==
                             PostCreateFields(mappings, s_key, current_time)
                     IN  \E rejected \in SUBSET DictKeys(post_create_fields),
                            batch \in RemoteOutcomes :
                           LET attempts == PostCreateAttempts(post_create_fields, rejected)
                               successful_fields == SuccessfulFields(attempts)
                               batched == successful_fields # <<>>
                               failed  == Cardinality(rejected)
                                            + (IF batched THEN Fails(batch = "ok") ELSE 0)
                               end == clock + 1 + Len(successful_fields)
                                        + (IF batched /\ batch = "ok" THEN 1 ELSE 0)
                               puts == [n \in 1..Len(attempts) |->
                                           Call("put", "target", s_key, new_key,
                                                << <<attempts[n].field, attempts[n].value>> >>,
                                                attempts[n].ok)]
                               log == <<Call("create_issue", "target", s_key, new_key,
                                             payload, TRUE)>>
                                      \o puts
                                      \o (IF batched
                                          THEN <<Call("update_issue", "target", s_key, new_key,
                                                      successful_fields, batch = "ok")>>
                                          ELSE <<>>)
                               r1 == [run EXCEPT !.created_count = @ + 1,
                                                 !.skey = s_key, !.tkey = new_key,
                                                 !.skipAfter = FALSE]
                           IN  /\ (~batched => batch = "ok")
                               /\ failures + failed <= MaxRunFailures
                               /\ failures' = failures + failed
                               /\ clock' = end
                               /\ tgtIssues' =
                                    (new_key :>
                                       [fields  |-> Written(Written(BlankFields, payload),
                                                            successful_fields),
                                        updated |-> Stamp(end + tz.tgt, tz.tgt)])
                                    @@ tgtIssues
                               /\ calls' = calls \o log
                               /\ creates' = Append(creates,
                                                [skey |-> s_key, tkey |-> new_key, run |-> runs])
                               /\ proc' = [p0 EXCEPT !.tkey = new_key, !.createOk = TRUE,
                                                     !.attempts = attempts,
                                                     !.answer = IF batched THEN batch
                                                                ELSE "none"]
                               /\ run' = IF batched /\ batch = "raise"
                                         THEN Crashed(r1)
                                         ELSE [r1 EXCEPT !.pc = "call_merge"]
             ELSE /\ failures < MaxRunFailures
                  /\ failures' = failures + 1
                  /\ calls' = Append(calls, Call("create_issue", "target", s_key, "",
                                                 payload, FALSE))
                  /\ proc' = [p0 EXCEPT !.done = TRUE, !.answer = created]
                  /\ run' = AfterFailedCreate(run, created)
                  /\ UNCHANGED <<clock, tgtIssues, creates>>
    /\ UNCHANGED <<attVars, mergeVars, userOps, merges, rv, pp>>
    /\ UNCHANGED <<mappings, tz, srcIssues, runs>>

\* lines 1222-1227: the value read from the target issue
LastSyncTimeOf(t_issue, last_sync_time_field) ==
    LET v == IF last_sync_time_field # "" THEN FieldGet(t_issue, last_sync_time_field)
             ELSE None
    IN  IF IsDict(v) THEN v[3] ELSE v

\* the comparison of lines 1246-1256 alone
resolve_direction_no_short_circuit(s_time, t_time, last_sync_time) ==
    [short |-> FALSE,
     direction |-> IF StrLess(t_time, s_time) THEN "S2T"
                   ELSE IF StrLess(s_time, t_time) THEN "T2S"
                   ELSE "NONE"]

\* lines 1229-1256: the short circuit on last_sync_time, then the comparison
resolve_direction(s_time, t_time, last_sync_time) ==
    IF /\ Truthy(last_sync_time)
       /\ StrLeq(s_time, last_sync_time) /\ StrLeq(t_time, last_sync_time)
    THEN [short |-> TRUE, direction |-> "NONE"]
    ELSE [short |-> FALSE,
          direction |-> IF StrLess(t_time, s_time) THEN "S2T"
                        ELSE IF StrLess(s_time, t_time) THEN "T2S"
                        ELSE "NONE"]

\* the pair whose update the site did not accept gets no merge
AfterUpdate_merge_on_success(r, answer) ==
    IF answer = "ok" THEN r ELSE NextIssue(r)

\* lines 1289-1304: update_issue returns nothing, and sync_attachments is the
\* next statement after the if on update_fields
AfterUpdate(r, answer) == r

\* the update that goes to the target site in either direction
Recipient_always_target(direction) == "target"

\* lines 1289-1293: target_jira for S2T, source_jira for T2S
Recipient(direction) == IF direction = "S2T" THEN "target" ELSE "source"

\* lines 1212-1307: the map has an entry for the source key
MatchedPath ==
    /\ run.pc = "loop"
    /\ InTargetMap(run.source_issues[run.i], run.target_map)
    /\ LET s_key   == run.source_issues[run.i]
           t_key   == run.target_map[s_key]
           s_issue == srcIssues[s_key]
           t_issue == tgtIssues[t_key]
           s_time  == s_issue.updated
           t_time  == t_issue.updated
           last_sync_time == LastSyncTimeOf(t_issue, get_last_sync_time_field(mappings))
           d == resolve_direction(s_time, t_time, last_sync_time)
           update_fields ==
               IF d.direction = "NONE" THEN <<>>
               ELSE prepare_update_payload(mappings, s_issue, t_issue, d.direction,
                                           NaiveStamp(clock + tz.host))
           p1 == [NoProc EXCEPT !.skey = s_key, !.tkey = t_key, !.path = "matched",
                                !.short = d.short, !.direction = d.direction,
                                !.s_time = s_time, !.t_time = t_time,
                                !.last_sync_time = last_sync_time,
                                !.update_fields = update_fields,
                                !.before = Tallies(run)]
           r1 == [run EXCEPT !.pc = "call_merge", !.skey = s_key, !.tkey = t_key,
                             !.skipAfter = (update_fields = <<>>)]
       IN  /\ IF update_fields = <<>>
              THEN /\ run' = r1
                   /\ proc' = p1
                   /\ UNCHANGED <<srcIssues, tgtIssues, clock, calls, failures>>
              ELSE \E answer \in RemoteOutcomes :
                     LET toTarget == Recipient(d.direction) = "target"
                         off      == IF toTarget THEN tz.tgt ELSE tz.src
                         stamped(issue) ==
                             [fields  |-> Written(issue.fields, update_fields),
                              updated |-> Stamp(clock + 1 + off, off)]
                     IN  /\ failures + Fails(answer = "ok") <= MaxRunFailures
                         /\ failures' = failures + Fails(answer = "ok")
                         /\ proc' = [p1 EXCEPT !.answer = answer]
                         /\ calls' = Append(calls,
                                Call("update_issue", IF toTarget THEN "target" ELSE "source",
                                     s_key, IF toTarget THEN t_key ELSE s_key,
                                     update_fields, answer = "ok"))
                         /\ clock' = IF answer = "ok" THEN clock + 1 ELSE clock
                         /\ tgtIssues' = IF answer = "ok" /\ toTarget
                                         THEN [tgtIssues EXCEPT ![t_key] = stamped(@)]
                                         ELSE tgtIssues
                         /\ srcIssues' = IF answer = "ok" /\ ~toTarget
                                         THEN [srcIssues EXCEPT ![s_key] = stamped(@)]
                                         ELSE srcIssues
                         /\ run' = IF answer = "raise" THEN Crashed(r1)
                                   ELSE AfterUpdate(
                                          [r1 EXCEPT !.updated_count = @ + 1,
                                                     !.synced = IF answer = "ok"
                                                                THEN @ \cup {s_key}
                                                                ELSE @],
                                          answer)
    /\ UNCHANGED <<attVars, mergeVars, userOps, merges, rv, pp>>
    /\ UNCHANGED <<mappings, tz, creates, runs>>

\* lines 1206, 1237, 1261, 1299: the call of sync_attachments for the pair
CallSyncAttachments ==
    /\ run.pc = "call_merge"
    /\ MergeStart(run.skey, run.tkey)

(***************************************************************************)
(* The remote users: an issue is edited by hand between two runs           *)
(***************************************************************************)
Edited(issue, off) ==
    [fields  |-> [issue.fields EXCEPT !["summary"] = Str("edited")],
     updated |-> Stamp(clock + 1 + off, off)]

UserEditSource ==
    /\ run.pc = "idle" /\ merge.pc = "idle"
    /\ userOps < MaxEdits
    /\ 1 <= runs /\ runs < MaxRuns
    /\ userOps' = userOps + 1
    /\ clock' = clock + 1
    /\ \E k \in DOMAIN srcIssues : srcIssues' = [srcIssues EXCEPT ![k] = Edited(@, tz.src)]
    /\ UNCHANGED <<attVars, mergeVars, merges, failures, rv, pp>>
    /\ UNCHANGED <<mappings, tz, tgtIssues, run, calls, proc, creates, runs>>

UserEditTarget ==
    /\ run.pc = "idle" /\ merge.pc = "idle"
    /\ userOps < MaxEdits
    /\ 1 <= runs /\ runs < MaxRuns
    /\ userOps' = userOps + 1
    /\ clock' = clock + 1
    /\ \E k \in DOMAIN tgtIssues : tgtIssues' = [tgtIssues EXCEPT ![k] = Edited(@, tz.tgt)]
    /\ UNCHANGED <<attVars, mergeVars, merges, failures, rv, pp>>
    /\ UNCHANGED <<mappings, tz, srcIssues, run, calls, proc, creates, runs>>

(***************************************************************************)
(* Specification of run_sync                                               *)
(***************************************************************************)
NoIssues == [k \in {} |-> None]

InitIssue(summary, severity, instant, off) ==
    [fields  |-> [BlankFields EXCEPT !["summary"] = Str(summary),
                                     !["customfield_10037"] = severity],
     updated |-> Stamp(instant + off, off)]

\* S1 has the target T1 (matched by hand, never synced); S2 has none
Init ==
    /\ \E inst \in Installations : mappings = inst[1] /\ tz = inst[2]
    /\ srcIssues = [k \in SourceKeys |->
                      IF k = "S1" THEN InitIssue("one", Dict(None, Str("Sev-2")), 1, tz.src)
                      ELSE InitIssue("two", Dict(None, Str("Sev-0")), 0, tz.src)]
    /\ tgtIssues = ("T1" :>
                      [fields  |-> [BlankFields EXCEPT
                                      !["summary"] = Str("one"),
                                      !["customfield_10229"] = Dict(None, Str("Medium")),
                                      !["customfield_cid"] = Str("S1")],
                       updated |-> Stamp(2 + tz.tgt, tz.tgt)])
    /\ clock = 2
    /\ srcAtt = [k \in SourceKeys |-> IF k = "S2" THEN << <<"a">> >> ELSE <<>>]
    /\ tgtAtt = [k \in TargetKeys |-> IF k = "T1" THEN << <<"b">> >> ELSE <<>>]
    /\ staging = [k \in TargetKeys |-> {}]
    /\ partialFiles = [k \in TargetKeys |-> {}]
    /\ merge = IdleMerge
    /\ lastRun = NoRun
    /\ prevRun = NoRun
    /\ envSince = FALSE
    /\ userOps = 0
    /\ merges = 0
    /\ failures = 0
    /\ rv = NoCall
    /\ pp = NoPayload
    /\ run = IdleRun
    /\ calls = <<>>
    /\ proc = NoProc
    /\ creates = <<>>
    /\ runs = 0

Next ==
    \/ RunStart
    \/ CreatePath
    \/ MatchedPath
    \/ CallSyncAttachments
    \/ DownloadSource
    \/ DownloadTarget
    \/ UploadToTarget
    \/ UploadToSource
    \/ UserEditSource
    \/ UserEditTarget

Spec == Init /\ [][Next]_vars

\* the part of a state that run_sync owns, at rest
RunAtRest ==
    /\ mappings = FullConfig
    /\ tz = SameZone
    /\ srcIssues = NoIssues
    /\ tgtIssues = NoIssues
    /\ clock = 0
    /\ run = IdleRun
    /\ calls = <<>>
    /\ proc = NoProc
    /\ creates = <<>>
    /\ runs = 0

(***************************************************************************)
(* Specification of the attachment merge on one issue pair                 *)
(***************************************************************************)
InitAttach ==
    /\ srcAtt = [k \in SourceKeys |-> <<>>]
    /\ tgtAtt = [k \in TargetKeys |-> <<>>]
    /\ staging = [k \in TargetKeys |-> {}]
    /\ partialFiles = [k \in TargetKeys |-> {}]
    /\ merge = IdleMerge
    /\ lastRun = NoRun
    /\ prevRun = NoRun
    /\ envSince = FALSE
    /\ userOps = 0
    /\ merges = 0
    /\ failures = 0
    /\ rv = NoCall
    /\ pp = NoPayload
    /\ RunAtRest

SyncAttachmentsCall ==
    /\ run.pc = "idle"
    /\ merges < MaxMerges
    /\ MergeStart(AttachPair.s, AttachPair.t)

NextAttach ==
    \/ SyncAttachmentsCall
    \/ DownloadSource
    \/ DownloadTarget
    \/ UploadToTarget
    \/ UploadToSource
    \/ UserAddAttachment
    \/ UserDeleteAttachment

SpecAttach == InitAttach /\ [][NextAttach]_vars

(***************************************************************************)
(* Specification of the value resolvers: the calls                         *)
(***************************************************************************)
InitResolve ==
    /\ rv \in ResolverCalls
    /\ srcAtt = [k \in SourceKeys |-> <<>>]
    /\ tgtAtt = [k \in TargetKeys |-> <<>>]
    /\ staging = [k \in TargetKeys |-> {}]
    /\ partialFiles = [k \in TargetKeys |-> {}]
    /\ merge = IdleMerge
    /\ lastRun = NoRun
    /\ prevRun = NoRun
    /\ envSince = FALSE
    /\ userOps = 0
    /\ merges = 0
    /\ failures = 0
    /\ pp = NoPayload
    /\ RunAtRest

ResolverFrame ==
    /\ UNCHANGED <<srcAtt, tgtAtt, staging, partialFiles, merge, lastRun, prevRun,
                   envSince, userOps, merges, failures, pp>>
    /\ RunFrame

CallResolveValue ==
    /\ rv.fn = "sync_issues" /\ rv.out = Unset
    /\ rv' = [rv EXCEPT !.out = resolve_value(rv.input,
                                  MappedRule(rv.table, rv.reverse, rv.shape), rv.direction)]
    /\ ResolverFrame

CallDemoResolveValue ==
    /\ rv.fn = "sync_demo" /\ rv.out = Unset
    /\ rv' = [rv EXCEPT !.out = demo_resolve_value(rv.input,
                                  MappedRule(rv.table, rv.reverse, rv.shape), rv.direction)]
    /\ ResolverFrame

\* sync_field passes the value sub-field of the target field
CallGetReverseValue ==
    /\ rv.fn = "jira_sync" /\ rv.out = Unset
    /\ rv.input[1] = "str"
    /\ rv' = [rv EXCEPT !.out = get_reverse_value(rv.input,
                                  MappedRule(rv.table, rv.reverse, rv.shape))]
    /\ ResolverFrame

NextResolve ==
    \/ CallResolveValue
    \/ CallDemoResolveValue
    \/ CallGetReverseValue

SpecResolve == InitResolve /\ [][NextResolve]_vars

(***************************************************************************)
(* Specification of the payload builders: the calls                        *)
(***************************************************************************)
MaxTableLen == 2

\* a custom field copied from the target site to the source site only
NoteRule ==
    [DefaultRule EXCEPT !.strategy = "DIRECT_COPY", !.type = "custom",
                        !.sourceFieldId = "customfield_20001",
                        !.targetFieldId = "customfield_20002",
                        !.syncDirection = "T2S"]

\* a static value set on every update, in either direction
StaticUpdateRule ==
    [DefaultRule EXCEPT !.strategy = "STATIC_VALUE", !.targetFieldId = "customfield_static",
                        !.staticValue = Dict(None, Str("Synced")), !.triggerOn = {"UPDATE"},
                        !.syncDirection = "BIDIRECTIONAL"]

PayloadRules ==
    {SummaryRule, SeverityRule, AttachmentRule, CidRule, LstRule, StaticRule,
     NoteRule, StaticUpdateRule}

PayloadTables == UNION {[1..n -> PayloadRules] : n \in 0..MaxTableLen}

\* issue['fields'] with the attachment list the search returns
WithAttachment(fields) == fields @@ ("attachment" :> <<"list", Str("a.png")>>)

PayloadSources ==
    {[fields  |-> WithAttachment([BlankFields EXCEPT
                      !["summary"] = Str("one"),
                      !["customfield_10037"] = Dict(None, Str("Sev-1")),
                      !["customfield_20001"] = Str("note")]),
      updated |-> Stamp(1, 0)],
     [fields  |-> WithAttachment([BlankFields EXCEPT !["summary"] = Str("two")]),
      updated |-> Stamp(1, 0)]}

PayloadTargets ==
    {[fields  |-> WithAttachment([BlankFields EXCEPT
                      !["summary"] = Str("one"),
                      !["customfield_10229"] = Dict(None, Str("Medium")),
                      !["customfield_20002"] = Str("note"),
                      !["customfield_cid"] = Str("S1")]),
      updated |-> Stamp(2, 0)],
     [fields  |-> WithAttachment([BlankFields EXCEPT
                      !["summary"] = Str("other"),
                      !["customfield_20002"] = Str("reply"),
                      !["customfield_cid"] = Str("S1"),
                      !["customfield_static"] = Str("Synced")]),
      updated |-> Stamp(2, 0)]}

PayloadCalls ==
    {[NoPayload EXCEPT !.fn = "prepare_create_payload", !.direction = "S2T"]}
    \cup {[NoPayload EXCEPT !.fn = "prepare_update_payload", !.direction = d] :
             d \in {"S2T", "T2S"}}

InitPayload ==
    /\ pp \in PayloadCalls
    /\ mappings \in PayloadTables
    /\ tz = SameZone
    /\ \E s \in PayloadSources : srcIssues = ("S1" :> s)
    /\ \E t \in PayloadTargets : tgtIssues = ("T1" :> t)
    /\ clock = 2
    /\ run = IdleRun
    /\ calls = <<>>
    /\ proc = NoProc
    /\ creates = <<>>
    /\ runs = 0
    /\ srcAtt = [k \in SourceKeys |-> <<>>]
    /\ tgtAtt = [k \in TargetKeys |-> <<>>]
    /\ staging = [k \in TargetKeys |-> {}]
    /\ partialFiles = [k \in TargetKeys |-> {}]
    /\ merge = IdleMerge
    /\ lastRun = NoRun
    /\ prevRun = NoRun
    /\ envSince = FALSE
    /\ userOps = 0
    /\ merges = 0
    /\ failures = 0
    /\ rv = NoCall

PayloadFrame ==
    /\ UNCHANGED <<srcAtt, tgtAtt, staging, partialFiles, merge, lastRun, prevRun,
                   envSince, userOps, merges, failures, rv>>
    /\ RunFrame

CallPrepareCreatePayload ==
    /\ pp.fn = "prepare_create_payload" /\ pp.out = Unset
    /\ pp' = [pp EXCEPT !.out = prepare_create_payload(mappings, srcIssues["S1"],
                                                       TargetProjectKey, "Bug")]
    /\ PayloadFrame

CallPrepareUpdatePayload ==
    /\ pp.fn = "prepare_update_payload" /\ pp.out = Unset
    /\ pp' = [pp EXCEPT !.out = prepare_update_payload(mappings, srcIssues["S1"],
                                     tgtIssues["T1"], pp.direction,
                                     NaiveStamp(clock + tz.host))]
    /\ PayloadFrame

NextPayload ==
    \/ CallPrepareCreatePayload
    \/ CallPrepareUpdatePayload

SpecPayload == InitPayload /\ [][NextPayload]_vars

(***************************************************************************)
(* Specification of the prefix handling: one field under a rule with a     *)
(* prefix, synced any number of times in both directions, and the calls of *)
(* add_prefix_to_adf                                                       *)
(***************************************************************************)
MaxBlocks == 2

\* a text field (description) copied in both directions under a prefix
DescriptionRule ==
    [DefaultRule EXCEPT !.strategy = "DIRECT_COPY", !.type = "custom",
                        !.sourceFieldId = "customfield_20001",
                        !.targetFieldId = "customfield_20002",
                        !.syncDirection = "BIDIRECTIONAL", !.prefix = "[SRC]"]

HardBreak == [type |-> "hardBreak", text |-> None]

\* the blocks users write: paragraphs with and without a text run, headings,
\* a list; texts with and without the prefix in front
BlockShapes ==
    {Block("paragraph", <<TextNode(Str("hello"))>>),
     Block("paragraph", <<TextNode(Prefixed(DescriptionRule.prefix, Str("hello")))>>),
     Block("paragraph", <<HardBreak, TextNode(Str("hello"))>>),
     Block("paragraph", <<HardBreak>>),
     Block("heading", <<TextNode(Str("title"))>>),
     Block("heading", <<TextNode(Prefixed(DescriptionRule.prefix, Str("title")))>>),
     Block("bulletList", <<>>)}

RichDocuments == {Doc(b) : b \in UNION {[1..n -> BlockShapes] : n \in 0..MaxBlocks}}

TextValues == {Str("hello"), Prefixed(DescriptionRule.prefix, Str("hello"))}

\* the text runs of a document, as <<block, node>> positions
TextRuns(doc) ==
    {p \in UNION {{<<b, i>> : i \in 1..Len(doc[2][b].content)} : b \in 1..Len(doc[2])} :
        doc[2][p[1]].content[p[2]].type = "text"}

TextAt(doc, p) == doc[2][p[1]].content[p[2]].text

Before(p, q) == p[1] < q[1] \/ (p[1] = q[1] /\ p[2] < q[2])

\* how many times a value carries the prefix: at the front of a string (and
\* again behind it), at the front of the text runs of a document
PrefixCount(v, prefix) ==
    IF IsDoc(v)
    THEN Cardinality({p \in TextRuns(v) : StartsWith(TextAt(v, p), prefix)})
    ELSE IF StartsWith(v, prefix)
    THEN (IF StartsWith(v[3], prefix) THEN 2 ELSE 1)
    ELSE 0

\* the value starts with the prefix: the string does, or the first text run
\* of the document does
StartsWithPrefix(v, prefix) ==
    IF IsDoc(v)
    THEN \E p \in TextRuns(v) :
            /\ StartsWith(TextAt(v, p), prefix)
            /\ \A q \in TextRuns(v) : ~Before(q, p)
    ELSE StartsWith(v, prefix)

\* the values a user gives the field: without the prefix, or with the prefix
\* once, in front
PrefixValues ==
    {v \in RichDocuments \cup TextValues :
        \/ PrefixCount(v, DescriptionRule.prefix) = 0
        \/ /\ PrefixCount(v, DescriptionRule.prefix) = 1
           /\ StartsWithPrefix(v, DescriptionRule.prefix)}

PrefixCalls ==
    {[NoPayload EXCEPT !.fn = "add_prefix_to_adf", !.arg = d] : d \in RichDocuments}
    \cup {[NoPayload EXCEPT !.arg = v] : v \in PrefixValues}

SourceText == srcIssues["S1"].fields[DescriptionRule.sourceFieldId]

TargetText == tgtIssues["T1"].fields[DescriptionRule.targetFieldId]

InitPrefix ==
    /\ pp \in PrefixCalls
    /\ mappings = <<DescriptionRule>>
    /\ tz = SameZone
    /\ srcIssues = ("S1" :> [fields  |-> [BlankFields EXCEPT
                                            ![DescriptionRule.sourceFieldId] = pp.arg],
                             updated |-> Stamp(1, 0)])
    /\ tgtIssues = ("T1" :> [fields |-> BlankFields, updated |-> Stamp(0, 0)])
    /\ clock = 2
    /\ run = IdleRun
    /\ calls = <<>>
    /\ proc = NoProc
    /\ creates = <<>>
    /\ runs = 0
    /\ srcAtt = [k \in SourceKeys |-> <<>>]
    /\ tgtAtt = [k \in TargetKeys |-> <<>>]
    /\ staging = [k \in TargetKeys |-> {}]
    /\ partialFiles = [k \in TargetKeys |-> {}]
    /\ merge = IdleMerge
    /\ lastRun = NoRun
    /\ prevRun = NoRun
    /\ envSince = FALSE
    /\ userOps = 0
    /\ merges = 0
    /\ failures = 0
    /\ rv = NoCall

PrefixFrame ==
    UNCHANGED <<srcAtt, tgtAtt, staging, partialFiles, merge, lastRun, prevRun, envSince,
                userOps, merges, failures, rv, mappings, tz, clock, run, calls, proc,
                creates, runs>>

\* copy.deepcopy (line 347): the document handed in stays as it is
CallAddPrefixToAdf ==
    /\ pp.fn = "add_prefix_to_adf" /\ pp.out = Unset
    /\ pp' = [pp EXCEPT !.out = add_prefix_to_adf(pp.arg, DescriptionRule.prefix)]
    /\ UNCHANGED <<srcIssues, tgtIssues>>
    /\ PrefixFrame

\* the target issue is created from the source issue (lines 1086-1091)
PrefixCreate ==
    /\ pp.fn = "" /\ TargetText = None
    /\ LET payload == prepare_create_payload(mappings, srcIssues["S1"],
                                             TargetProjectKey, "Bug")
       IN  /\ pp' = [pp EXCEPT !.fn = "prepare_create_payload", !.direction = "S2T",
                                !.out = payload]
           /\ tgtIssues' = [tgtIssues EXCEPT !["T1"].fields = Written(@, payload)]
    /\ UNCHANGED srcIssues
    /\ PrefixFrame

\* a field sync of the pair in one direction (lines 1271-1293), accepted
PrefixSync(direction) ==
    /\ pp.fn # "add_prefix_to_adf"
    /\ LET payload == prepare_update_payload(mappings, srcIssues["S1"], tgtIssues["T1"],
                                             direction, NaiveStamp(clock + tz.host))
       IN  /\ pp' = [pp EXCEPT !.fn = "prepare_update_payload", !.direction = direction,
                                !.out = payload]
           /\ IF Recipient(direction) = "target"
              THEN /\ tgtIssues' = [tgtIssues EXCEPT !["T1"].fields = Written(@, payload)]
                   /\ UNCHANGED srcIssues
              ELSE /\ srcIssues' = [srcIssues EXCEPT !["S1"].fields = Written(@, payload)]
                   /\ UNCHANGED tgtIssues
    /\ PrefixFrame

PrefixSyncS2T == PrefixSync("S2T")

PrefixSyncT2S == PrefixSync("T2S")

NextPrefix ==
    \/ CallAddPrefixToAdf
    \/ PrefixCreate
    \/ PrefixSyncS2T
    \/ PrefixSyncT2S

SpecPrefix == InitPrefix /\ [][NextPrefix]_vars

(***************************************************************************)
(* Specification of the filename convention: one attachment handed from    *)
(* site to site, each time under the staged name of its download           *)
(***************************************************************************)
MaxPrefixes == 2

MaxRelays == 2

\* the project keys, and a tag a user puts in front of a name
BracketTags == {SourceProjectKey, TargetProjectKey, "v2"}

\* the last part of a name: plain, or starting with a blank
RestNames == {"a", " a"}

FileNames ==
    {tags \o <<rest>> : tags \in UNION {[1..n -> BracketTags] : n \in 0..MaxPrefixes},
                        rest \in RestNames}

NameCalls ==
    {[NoPayload EXCEPT !.fn = "download_attachment_to_local", !.arg = f] : f \in FileNames}

InitNames ==
    /\ pp \in NameCalls
    /\ mappings = <<>>
    /\ tz = SameZone
    /\ srcIssues = <<>>
    /\ tgtIssues = <<>>
    /\ clock = 0
    /\ run = IdleRun
    /\ calls = <<>>
    /\ proc = NoProc
    /\ creates = <<>>
    /\ runs = 0
    /\ srcAtt = [k \in SourceKeys |-> <<>>]
    /\ tgtAtt = [k \in TargetKeys |-> <<>>]
    /\ staging = [k \in TargetKeys |-> {}]
    /\ partialFiles = [k \in TargetKeys |-> {}]
    /\ merge = IdleMerge
    /\ lastRun = NoRun
    /\ prevRun = NoRun
    /\ envSince = FALSE
    /\ userOps = 0
    /\ merges = 0
    /\ failures = 0
    /\ rv = NoCall

\* the names the attachment has been staged under so far, with their keys
Relays == IF pp.out = Unset THEN <<>> ELSE Tail(pp.out)

\* the name the attachment has now
CurrentName == IF Relays = <<>> THEN pp.arg ELSE Relays[Len(Relays)].name

\* lines 705-707: the attachment is staged as get_filename_with_prefix(filename,
\* project_key), and the staged file is what the other site receives
RelayFile ==
    /\ pp.fn = "download_attachment_to_local"
    /\ Len(Relays) < MaxRelays
    /\ \E project_key \in {SourceProjectKey, TargetProjectKey} :
          pp' = [pp EXCEPT !.out = Append(<<"list">> \o Relays,
                     [key  |-> project_key,
                      name |-> get_filename_with_prefix(CurrentName, project_key)])]
    /\ UNCHANGED <<srcIssues, tgtIssues>>
    /\ PrefixFrame

NextNames == RelayFile

SpecNames == InitNames /\ [][NextNames]_vars

(***************************************************************************)
(* Claims about run_sync (checked under Spec)                              *)
(***************************************************************************)
\* the remote calls of the current run made for source issue k, in order
CallsFor(k) == SelectSeq(calls, LAMBDA c : c.skey = k)

\* the fields the mapping table defers to after the create call
DeferredFieldIds ==
    {mappings[n].targetFieldId : n \in
        {j \in 1..Len(mappings) :
            /\ mappings[j].targetFieldId # ""
            /\ \/ /\ mappings[j].strategy = "SYNC_METADATA"
                  /\ mappings[j].metadataType \in {"customer_issue_id", "last_sync_time"}
               \/ /\ mappings[j].strategy = "STATIC_VALUE"
                  /\ "CREATE" \in mappings[j].triggerOn}}

\* C2: for a source issue without target, the create call comes before every
\* update of the new issue, and each deferred field (customer_issue_id,
\* last_sync_time, each STATIC_VALUE field triggered on CREATE) is attempted in
\* exactly one update call that carries that field alone; every such call the
\* site accepts leaves its value on the new issue, whichever others it rejected.
C2_CreateThenDeferred ==
    (proc.path = "create" /\ proc.createOk)
    => LET log == CallsFor(proc.skey)
           PutOf(f) == {n \in 1..Len(log) :
                          /\ log[n].op = "put" /\ log[n].key = proc.tkey
                          /\ DictKeys(log[n].fields) = {f}}
       IN  /\ log[1].op = "create_issue" /\ log[1].ok /\ log[1].key = proc.tkey
           /\ \A n \in 2..Len(log) : log[n].op # "create_issue"
           /\ \A f \in DeferredFieldIds :
                /\ Cardinality(PutOf(f)) = 1
                /\ \A n \in PutOf(f) :
                      log[n].ok => tgtIssues[proc.tkey].fields[f] = DictGet(log[n].fields, f)

\* a deferred field was rejected and a later one was applied all the same
C2_Witness ==
    /\ proc.path = "create" /\ proc.createOk
    /\ \E i, j \in 1..Len(proc.attempts) :
         /\ i < j
         /\ ~proc.attempts[i].ok
         /\ proc.attempts[j].ok
         /\ tgtIssues[proc.tkey].fields[proc.attempts[j].field] = proc.attempts[j].value

\* the target fields of the table's STATIC_VALUE rules that satisfy a test
StaticFieldIds(Test(_)) ==
    {mappings[n].targetFieldId : n \in
        {j \in 1..Len(mappings) : /\ mappings[j].strategy = "STATIC_VALUE"
                                  /\ mappings[j].targetFieldId # ""
                                  /\ Test(mappings[j])}}

DueOnCreate(item) ==
    "CREATE" \in item.triggerOn /\ item.syncDirection \in {"S2T", "BIDIRECTIONAL"}

\* the fields of the requests sent for the new issue: the create payload and
\* every update that follows it
FieldsSentToNew ==
    LET log == CallsFor(proc.skey)
    IN  UNION {DictKeys(log[n].fields) : n \in
                  {j \in 1..Len(log) : /\ log[j].key = proc.tkey
                                       /\ log[j].op \in {"create_issue", "put"}}}

\* C28: the STATIC_VALUE fields sent to a newly created target issue, in the
\* create payload or in the updates after it, are exactly those of the
\* STATIC_VALUE rules with CREATE in triggerOn and S2T or BIDIRECTIONAL as
\* syncDirection; a rule declared T2S, or without CREATE, sends nothing.
C28_DeferredStatics ==
    (proc.path = "create" /\ proc.createOk)
    => FieldsSentToNew \cap StaticFieldIds(LAMBDA item : TRUE) = StaticFieldIds(DueOnCreate)

\* the field the customer_issue_id rule of the table names
CidFieldOfTable ==
    LET hits == {n \in 1..Len(mappings) : /\ mappings[n].strategy = "SYNC_METADATA"
                                          /\ mappings[n].metadataType = "customer_issue_id"}
    IN  IF hits = {} THEN "" ELSE mappings[CHOOSE n \in hits : \A j \in hits : n <= j].targetFieldId

\* C3: with a customer_issue_id rule in the table, over all runs at most one
\* create call succeeds for a source key, whatever calls failed in between.
C3_AtMostOneCreate ==
    CidFieldOfTable # ""
    => \A k \in SourceKeys :
          Cardinality({n \in 1..Len(creates) : creates[n].skey = k}) <= 1

\* C4: for a matched pair not short-circuited by last_sync_time, the direction
\* is S2T exactly when the source's updated is the later instant, T2S exactly
\* when the target's is, NONE exactly when the two are the same instant,
\* whatever UTC offsets the two timestamps carry.
C4_DirectionByLaterTimestamp ==
    (proc.path = "matched" /\ ~proc.short)
    => /\ proc.direction = "S2T" <=> Instant(proc.s_time) > Instant(proc.t_time)
       /\ proc.direction = "T2S" <=> Instant(proc.t_time) > Instant(proc.s_time)
       /\ proc.direction = "NONE" <=> Instant(proc.s_time) = Instant(proc.t_time)

\* C5: a matched pair whose target carries a last_sync_time value that neither
\* updated value exceeds (the values compared as the timestamp strings they
\* are): no create or update call is made for the pair, sync_attachments is
\* called once for it, and the pair adds one to the skipped tally and nothing
\* to the other two.
C5_SkipStillMerges ==
    (/\ proc.path = "matched" /\ proc.done
     /\ Truthy(proc.last_sync_time)
     /\ StrLeq(proc.s_time, proc.last_sync_time)
     /\ StrLeq(proc.t_time, proc.last_sync_time))
    => LET log == CallsFor(proc.skey)
       IN  /\ \A n \in 1..Len(log) : log[n].op = "sync_attachments"
           /\ Cardinality({n \in 1..Len(log) : log[n].key = proc.tkey}) = 1
           /\ Tallies(run) = [proc.before EXCEPT !.skipped = @ + 1]

\* a pair skipped on last_sync_time whose merge has run
C5_Witness ==
    /\ proc.path = "matched" /\ proc.done /\ proc.short
    /\ Truthy(proc.last_sync_time)
    /\ lastRun.ran /\ lastRun.skey = proc.skey /\ lastRun.tkey = proc.tkey
    /\ run.skipped_count = proc.before.skipped + 1

\* the text of a customer_issue_id value: of an object its value sub-field,
\* else its name sub-field; "" when there is none
ValueText(v) ==
    CASE v[1] = "str"  -> v[2]
      [] v[1] = "dict" -> IF v[3] \notin {None, Str("")} THEN v[3][2]
                          ELSE IF v[2] \notin {None, Str("")} THEN v[2][2]
                          ELSE ""
      [] OTHER         -> ""

\* C6: every entry of the lookup map is a target issue whose customer_issue_id
\* field is non-empty, under the text of that field's value; a source issue
\* takes the create path only when its key is no key of the map, and the
\* matched path only when it is one, against the issue the map gives for it.
C6_LookupMap ==
    /\ \A k \in DOMAIN run.target_map :
          /\ k # ""
          /\ ValueText(tgtIssues[run.target_map[k]].fields[CidFieldOfTable]) = k
    /\ proc.path = "create" => proc.skey \notin DOMAIN run.target_map
    /\ proc.path = "matched" => /\ proc.skey \in DOMAIN run.target_map
                                /\ proc.tkey = run.target_map[proc.skey]

\* S1 is matched through the map while a target with an empty
\* customer_issue_id exists and is no entry of the map
C6_Witness ==
    /\ proc.path = "matched"
    /\ CidFieldOfTable # ""
    /\ \E t \in DOMAIN tgtIssues :
          /\ tgtIssues[t].fields[CidFieldOfTable] = None
          /\ \A k \in DOMAIN run.target_map : run.target_map[k] # t

\* a rule that prepare_update_payload considers for the direction
Applicable(item, direction) == item.syncDirection \in {direction, "BIDIRECTIONAL"}

\* the field a rule names on the target site
TargetSideOf(item) ==
    IF item.strategy \in {"STATIC_VALUE", "SYNC_METADATA"} THEN item.targetFieldId
    ELSE TargetFieldOf(item)

\* the update_issue calls of the current run that carry the map of the pair
FieldSyncCalls ==
    {n \in 1..Len(calls) : /\ calls[n].op = "update_issue"
                           /\ calls[n].skey = proc.skey
                           /\ calls[n].fields = proc.update_fields}

\* C13: the map prepare_update_payload returns for a matched pair comes from
\* rules whose syncDirection is the direction or BIDIRECTIONAL only; in S2T
\* each key is the target-side field id of such a rule and the map goes to the
\* target site; in T2S each key is the source-side field id of such a rule,
\* its value is resolved from the target issue's field, and the map goes to
\* the source site.
C13_UpdateMapBySide ==
    (proc.path = "matched" /\ proc.direction \in {"S2T", "T2S"} /\ run.pc = "call_merge")
    => /\ \A k \in DictKeys(proc.update_fields) :
             \E n \in 1..Len(mappings) :
                /\ Applicable(mappings[n], proc.direction)
                /\ IF proc.direction = "S2T"
                   THEN k = TargetSideOf(mappings[n])
                   ELSE /\ mappings[n].strategy \notin {"STATIC_VALUE", "SYNC_METADATA"}
                        /\ k = SourceFieldOf(mappings[n])
                        /\ DictGet(proc.update_fields, k)
                             = resolve_value(FieldGet(tgtIssues[proc.tkey],
                                                      TargetFieldOf(mappings[n])),
                                             mappings[n], "T2S")
       /\ \A n \in FieldSyncCalls :
             calls[n].site = IF proc.direction = "S2T" THEN "target" ELSE "source"

\* C14: a matched pair whose fields are synced (S2T or T2S), with a
\* last_sync_time rule in the table and every update call of the pair accepted:
\* the map of the pair carries the current timestamp under the last_sync_time
\* field, an update call took it to the target site, and the target issue
\* holds it, in both directions.
C14_LastSyncTimeOnTarget ==
    (/\ proc.path = "matched" /\ proc.direction \in {"S2T", "T2S"}
     /\ run.pc = "call_merge"
     /\ get_last_sync_time_field(mappings) # ""
     /\ \A n \in FieldSyncCalls : calls[n].ok)
    => LET last_sync_time_field == get_last_sync_time_field(mappings)
       IN  /\ DictHas(proc.update_fields, last_sync_time_field)
           /\ \E n \in FieldSyncCalls :
                 /\ calls[n].site = "target" /\ calls[n].key = proc.tkey
                 /\ DictHas(calls[n].fields, last_sync_time_field)
           /\ tgtIssues[proc.tkey].fields[last_sync_time_field]
                 = DictGet(proc.update_fields, last_sync_time_field)

\* the source issues of the fetched list that the loop has dealt with
Processed(k) == CallsFor(k) # <<>>

\* C16: a source issue whose create call failed has that one call and no other
\* in the run (no update of any kind, no sync_attachments, no second create);
\* a call answered with an error status (create, post-create field, update)
\* does not end the run: the loop is at the next issue of the list, and a run
\* that has ended has dealt with every issue of the list.
C16_FailureAbandonsIssueOnly ==
    /\ \A k \in SourceKeys :
          (\E n \in 1..Len(calls) : /\ calls[n].op = "create_issue"
                                     /\ calls[n].skey = k /\ ~calls[n].ok)
          => Len(CallsFor(k)) = 1
    /\ (proc.path # "none" /\ proc.answer # "raise") => run.outcome # "crashed"
    /\ (run.outcome = "running" /\ run.pc = "loop")
          => \A i \in 1..(run.i - 1) : Processed(run.source_issues[i])
    /\ run.outcome = "finished"
          => \A i \in 1..Len(run.source_issues) : Processed(run.source_issues[i])

\* the create call for the first issue of the list was rejected and the run
\* has gone on to deal with the second
C16_Witness ==
    /\ run.outcome = "finished"
    /\ Len(run.source_issues) = 2
    /\ LET first == CallsFor(run.source_issues[1])
       IN  Len(first) = 1 /\ first[1].op = "create_issue" /\ ~first[1].ok
    /\ \E n \in 1..Len(calls) :
          calls[n].skey = run.source_issues[2] /\ calls[n].op = "sync_attachments"

\* C17: with no SYNC_METADATA rule of type customer_issue_id in the table,
\* run_sync makes no remote call at all: no connection test, no search, no
\* create, no update.
C17_NoCidRuleNoCall ==
    MetadataRuleAt(mappings, "customer_issue_id") = 0
    => calls = <<>> /\ creates = <<>>

\* C18: in a run whose connection test of the source site or of the target
\* site failed, the two connection tests are the only remote calls: no search,
\* create or update call, no sync_attachments call and so no attachment list,
\* download or upload call; no issue is tallied.
C18_FailedTestNoIssue ==
    (\E n \in 1..Len(calls) : calls[n].op = "test_connection" /\ ~calls[n].ok)
    => /\ \A n \in 1..Len(calls) : calls[n].op = "test_connection"
       /\ run.pc = "idle" /\ run.source_issues = <<>>
       /\ merge = IdleMerge /\ ~lastRun.ran
       /\ Tallies(run) = [created |-> 0, updated |-> 0, skipped |-> 0]

\* the source site answers its test, the target site does not, in a run that
\* follows one which created an issue
C18_Witness ==
    /\ runs = 2 /\ creates # <<>>
    /\ Len(calls) = 2
    /\ calls[1].op = "test_connection" /\ calls[1].site = "source" /\ calls[1].ok
    /\ calls[2].op = "test_connection" /\ calls[2].site = "target" /\ ~calls[2].ok

\* C20: when a run has ended, created + updated + skipped is the number of
\* source issues of the list; and whenever an issue has been tallied as created
\* or as updated, its create call, respectively its update call, succeeded.
C20_TalliesAreOutcomes ==
    /\ run.outcome = "finished"
          => run.created_count + run.updated_count + run.skipped_count
               = Len(run.source_issues)
    /\ (proc.path # "none" /\ run.created_count = proc.before.created + 1)
          => \E n \in 1..Len(calls) : /\ calls[n].op = "create_issue"
                                       /\ calls[n].skey = proc.skey /\ calls[n].ok
    /\ (proc.path # "none" /\ run.updated_count = proc.before.updated + 1)
          => \A n \in FieldSyncCalls : calls[n].ok

\* C21: with no user edit and no failed call so far, a matched pair whose
\* field-update call was accepted in the run before is skipped on
\* last_sync_time in this run (both updated values are at most the stored
\* value) and no update call is made for it.
C21_QuiescentAfterSync ==
    (/\ proc.path = "matched" /\ proc.skey \in run.earlier
     /\ failures = 0 /\ userOps = 0)
    => /\ proc.short
       /\ Truthy(proc.last_sync_time)
       /\ StrLeq(proc.s_time, proc.last_sync_time)
       /\ StrLeq(proc.t_time, proc.last_sync_time)
       /\ \A n \in 1..Len(calls) :
             calls[n].skey = proc.skey => calls[n].op = "sync_attachments"

\* the calls of the current run for source issue k that write fields
FieldWrites(log, k) ==
    {n \in 1..Len(log) : log[n].skey = k /\ log[n].op # "sync_attachments"}

MergeCalls(k) ==
    {n \in 1..Len(calls) : calls[n].skey = k /\ calls[n].op = "sync_attachments"}

\* source issue k has a target in this run: an entry of the map, or a create
\* call that returned a key
HasTarget(k) ==
    \/ k \in DOMAIN run.target_map
    \/ \E n \in 1..Len(calls) :
          calls[n].op = "create_issue" /\ calls[n].skey = k /\ calls[n].ok

\* C23: for a matched pair and for a created target issue, whatever the
\* direction (skip on last_sync_time, NONE, S2T, T2S), with an empty or a
\* non-empty map and with the update accepted or answered with an error
\* status, sync_attachments is called once for the pair, after every create
\* and update call of the pair; a run that has ended has called it exactly
\* once for every source issue that has a target.
C23_MergeOncePerPair ==
    /\ (proc.path \in {"matched", "create"} /\ proc.tkey # "" /\ proc.answer # "raise")
          => /\ run.pc \in {"call_merge", "merging"} \/ proc.done
             /\ Cardinality(MergeCalls(proc.skey))
                   = IF run.pc = "call_merge" THEN 0 ELSE 1
             /\ \A n \in MergeCalls(proc.skey) :
                   /\ calls[n].key = proc.tkey
                   /\ \A j \in 1..Len(calls) :
                         (calls[j].skey = proc.skey /\ j # n) => j < n
    /\ \A k \in SourceKeys : Cardinality(MergeCalls(k)) <= 1
    /\ run.outcome = "finished"
          => \A i \in 1..Len(run.source_issues) :
                HasTarget(run.source_issues[i])
                   => Cardinality(MergeCalls(run.source_issues[i])) = 1

\* the update of a matched pair was answered with an error status, the merge
\* of the pair ran after it, and the run has ended
C23_Witness ==
    /\ run.outcome = "finished"
    /\ \E j, n \in 1..Len(calls) :
          /\ j < n
          /\ calls[j].op = "update_issue" /\ ~calls[j].ok /\ calls[j].skey = "S1"
          /\ calls[n].op = "sync_attachments" /\ calls[n].skey = "S1"
    /\ \E n \in 1..Len(calls) :
          calls[n].op = "sync_attachments" /\ calls[n].skey = "S2"

(***************************************************************************)
(* Claims about the value resolvers (checked under SpecResolve)            *)
(***************************************************************************)
\* the scalar a resolver call works on: the name sub-field, else the value
\* sub-field of an object, else the input itself
CallScalar ==
    IF rv.input[1] = "dict"
    THEN IF rv.input[2] # None THEN rv.input[2] ELSE rv.input[3]
    ELSE rv.input

\* the call maps some key to the scalar and names no explicit reverse for it
ImplicitCase ==
    /\ rv.out # Unset
    /\ rv.direction = "T2S"
    /\ CallScalar[1] = "str"
    /\ \A i \in 1..Len(rv.reverse) : rv.reverse[i][1] # CallScalar[2]
    /\ \E i \in 1..Len(rv.table) : rv.table[i][2] = CallScalar[2]

\* position i is the first item of the table whose value is the scalar
FirstMatchAt(i) ==
    /\ rv.table[i][2] = CallScalar[2]
    /\ \A j \in 1..(i - 1) : rv.table[j][2] # CallScalar[2]

\* C7: FieldProcessor.resolve_value, MAPPED_SYNC, T2S, no reverseMapping entry
\* for the input: the result is {value: k} with k the first key, in declaration
\* order, whose mapped value is the input scalar; on the documented table the
\* input Medium gives Sev-1.
C7_FirstDeclaredKey ==
    (ImplicitCase /\ rv.fn \in {"sync_issues", "sync_demo"})
    => /\ \E i \in 1..Len(rv.table) :
             FirstMatchAt(i) /\ rv.out = Dict(None, Str(rv.table[i][1]))
       /\ (rv.table = ExampleTable /\ CallScalar = Str("Medium")
              => rv.out = Dict(None, Str("Sev-1")))

C7_Witness ==
    /\ rv.fn = "sync_issues" /\ rv.direction = "T2S"
    /\ rv.table = ExampleTable /\ rv.reverse = <<>>
    /\ rv.input = Str("Medium")
    /\ rv.out = Dict(None, Str("Sev-1"))

\* C8: JiraSyncEngine.get_reverse_value, several keys mapping to the value and
\* no reverse_mapping_default entry for it: the result is the first key in
\* declaration order that maps to the value.
C8_EngineFirstKey ==
    (ImplicitCase /\ rv.fn = "jira_sync")
    => \E i \in 1..Len(rv.table) : FirstMatchAt(i) /\ rv.out = Str(rv.table[i][1])

\* C9: when the explicit reverse table has an entry for the input, T2S
\* resolution returns that entry's source value, whatever valueMapping holds.
C9_ExplicitReverseWins ==
    (/\ rv.out # Unset /\ rv.direction = "T2S" /\ CallScalar[1] = "str"
     /\ \E i \in 1..Len(rv.reverse) : rv.reverse[i][1] = CallScalar[2])
    => \E i \in 1..Len(rv.reverse) :
          /\ rv.reverse[i][1] = CallScalar[2]
          /\ rv.out = IF rv.fn = "jira_sync" THEN Str(rv.reverse[i][2])
                      ELSE Dict(None, Str(rv.reverse[i][2]))

\* the explicit entry names Sev-2 while the table's first key for Medium is Sev-0
C9_Witness ==
    /\ rv.fn = "sync_issues" /\ rv.direction = "T2S"
    /\ rv.input = Str("Medium")
    /\ rv.reverse = << <<"Medium", "Sev-2">> >>
    /\ rv.table = << <<"Sev-0", "Medium">>, <<"Sev-2", "Medium">> >>
    /\ rv.out = Dict(None, Str("Sev-2"))

\* the scalar of an input: the name sub-field, else the value sub-field, else
\* the input itself
ExtractedScalar(x) ==
    IF IsDict(x)
    THEN IF Truthy(x[2]) THEN x[2] ELSE IF Truthy(x[3]) THEN x[3] ELSE x
    ELSE x

IsKeyOf(scalar, table) == scalar[1] = "str" /\ DictHas(table, scalar[2])

\* C25: FieldProcessor.resolve_value, MAPPED_SYNC, S2T: the result is absent
\* when the scalar of the input is no key of valueMapping; otherwise it is the
\* mapped value v as {name: v} for the system field priority, as {value: v}
\* for a custom field, and v itself for any other system field.
C25_MappedS2TShape ==
    (rv.fn = "sync_issues" /\ rv.direction = "S2T" /\ rv.out # Unset)
    => LET scalar == ExtractedScalar(rv.input)
           v      == Str(DictGet(rv.table, scalar[2]))
       IN  IF ~IsKeyOf(scalar, rv.table) THEN rv.out = None
           ELSE rv.out = CASE rv.shape.type = "system" /\ rv.shape.fieldId = "priority"
                                 -> Dict(v, None)
                            [] rv.shape.type = "custom" -> Dict(None, v)
                            [] OTHER -> v

\* the keys of an ordered table
KeysOf(table) == {table[i][1] : i \in 1..Len(table)}

\* the first-declared key of the table with the same mapped value as key k
FirstKeyLike(table, k) ==
    LET same == {i \in 1..Len(table) : table[i][2] = DictGet(table, k)}
    IN  table[CHOOSE i \in same : \A j \in same : i <= j][1]

\* no two keys of the table share a mapped value
Injective(table) ==
    \A i, j \in 1..Len(table) : table[i][2] = table[j][2] => i = j

\* a key resolved towards the target, and the result resolved back
RoundTrip(k, config_item) ==
    resolve_value(resolve_value(Str(k), config_item, "S2T"), config_item, "T2S")

\* C29: for a MAPPED_SYNC rule without reverseMapping, a key of valueMapping
\* resolved S2T and the result resolved T2S gives {value: k'} with k' the
\* first-declared key that has the same mapped value; every key comes back as
\* itself exactly when no two keys share a mapped value.
C29_RoundTrip ==
    (rv.fn = "sync_issues" /\ rv.reverse = <<>> /\ rv.out # Unset)
    => LET config_item == MappedRule(rv.table, rv.reverse, rv.shape)
       IN  /\ \A k \in KeysOf(rv.table) :
                 RoundTrip(k, config_item) = Dict(None, Str(FirstKeyLike(rv.table, k)))
           /\ (\A k \in KeysOf(rv.table) : RoundTrip(k, config_item) = Dict(None, Str(k)))
                 <=> Injective(rv.table)
           /\ (rv.direction = "S2T" /\ rv.input[1] = "str" /\ rv.input[2] \in KeysOf(rv.table))
                 => resolve_value(rv.out, config_item, "T2S")
                      = Dict(None, Str(FirstKeyLike(rv.table, rv.input[2])))

\* a key was resolved S2T and its result resolves back to an earlier key
C29_Witness ==
    /\ rv.fn = "sync_issues" /\ rv.reverse = <<>> /\ rv.direction = "S2T"
    /\ rv.input[1] = "str" /\ rv.input[2] \in KeysOf(rv.table)
    /\ rv.out \notin {Unset, None, Raised}
    /\ ~Injective(rv.table)
    /\ resolve_value(rv.out, MappedRule(rv.table, rv.reverse, rv.shape), "T2S")
         \notin {None, Raised, Dict(None, rv.input)}

(***************************************************************************)
(* Claims about the attachment merge (checked under SpecAttach)            *)
(***************************************************************************)
\* C1: two merges of the same pair in a row, every call of the first one
\* succeeding and no remote change in between: the second merge leaves both
\* attachment sets as the first left them and issues no upload.
C1_SecondRunIsIdle ==
    (/\ prevRun.ran /\ lastRun.ran
     /\ prevRun.ok /\ prevRun.listsOk
     /\ lastRun.quiet)
    => (/\ lastRun.uploads = <<>>
        /\ lastRun.src = prevRun.src
        /\ lastRun.tgt = prevRun.tgt)

\* C10: after a merge whose list, download and upload calls all succeeded,
\* every stripped filename that was on either issue before the merge is on
\* both issues, whatever the staging directory held.
C10_UnionOnBothSides ==
    (lastRun.ran /\ lastRun.ok /\ lastRun.listsOk)
    => \A c \in lastRun.pre :
          c \in CleanNames(lastRun.src) /\ c \in CleanNames(lastRun.tgt)

\* the attachment list b holds every attachment of the list a, in place
KeepsAll(a, b) == Len(a) <= Len(b) /\ \A n \in 1..Len(a) : b[n] = a[n]

\* C11: a step of sync_attachments (any step that is not a user's) removes no
\* attachment from an issue of either site and no file from a staging
\* directory: every list and every directory keeps what it held.
C11_MergeOnlyAdds ==
    [][userOps' = userOps
       => /\ \A k \in DOMAIN srcAtt : KeepsAll(srcAtt[k], srcAtt'[k])
          /\ \A k \in DOMAIN tgtAtt : KeepsAll(tgtAtt[k], tgtAtt'[k])
          /\ \A k \in DOMAIN staging : staging[k] \subseteq staging'[k]]_vars

\* a merge has staged files and has uploaded to both issues
C11_Witness ==
    /\ lastRun.ran
    /\ staging[lastRun.tkey] # {}
    /\ \E i, j \in 1..Len(lastRun.uploads) :
          /\ lastRun.uploads[i].ok /\ lastRun.uploads[i].toTarget
          /\ lastRun.uploads[j].ok /\ ~lastRun.uploads[j].toTarget

\* C19: an attachment whose download failed in a merge has no upload in that
\* merge; and the next merge of the pair, if the attachment is still on a site
\* and no file staged in full carries its name, attempts the download again.
C19_FailedDownloadRetried ==
    /\ lastRun.ran
          => \A n \in 1..Len(lastRun.uploads) :
                remove_prefix_from_filename(lastRun.uploads[n].file) \notin lastRun.failed
    /\ (prevRun.ran /\ lastRun.ran /\ lastRun.listsOk)
          => \A c \in prevRun.failed :
                (c \in lastRun.pre /\ c \notin lastRun.whole) => c \in lastRun.tried

\* the uploads of the running merge and of the two merges before it; each
\* carries the filename of the list entry it is for (name) and the filenames
\* of the receiving side's list fetched just before it (seen)
UploadsOnRecord ==
    Range(merge.uploads) \cup Range(lastRun.uploads) \cup Range(prevRun.uploads)

\* C24: every upload sync_attachments issues is for a stripped filename that
\* the list of the receiving issue, fetched just before the upload, does not
\* hold; the file sent is a file of the staging directory, and its name is the
\* stripped filename under the prefix of the project whose list the attachment
\* was taken from (the source project towards the target, the target project
\* towards the source).
C24_UploadOnlyMissing ==
    /\ \A u \in UploadsOnRecord :
          /\ remove_prefix_from_filename(u.name) \notin CleanNames(u.seen)
          /\ u.file = <<IF u.toTarget THEN SourceProjectKey ELSE TargetProjectKey>>
                         \o remove_prefix_from_filename(u.name)
    /\ \A u \in Range(merge.uploads) : u.file \in staging[merge.tkey]
    /\ lastRun.ran => \A u \in Range(lastRun.uploads) : u.file \in staging[lastRun.tkey]

\* the source issue lists the same name twice: the first entry was uploaded to
\* the target, the second was not, the live list holding the first by then;
\* and an upload went to the source as well
C24_Witness ==
    /\ lastRun.ran /\ lastRun.listsOk
    /\ \E i, j \in 1..Len(srcAtt[lastRun.skey]) :
          i # j /\ remove_prefix_from_filename(srcAtt[lastRun.skey][i])
                     = remove_prefix_from_filename(srcAtt[lastRun.skey][j])
    /\ Cardinality({n \in 1..Len(lastRun.uploads) :
                       lastRun.uploads[n].toTarget /\ lastRun.uploads[n].ok}) = 1
    /\ \E n \in 1..Len(lastRun.uploads) :
          /\ ~lastRun.uploads[n].toTarget /\ lastRun.uploads[n].ok
          /\ lastRun.uploads[n].seen # {}

(***************************************************************************)
(* Claims about the filename convention (checked under SpecNames)          *)
(***************************************************************************)
\* C30: for every filename f and project keys k1, k2, stripping the name
\* staged under k1 gives the stripped f, and staging under k2 the name staged
\* under k1 gives f staged under k2: a relayed attachment keeps its stripped
\* name and carries the prefix of its last relay only.
C30_RelayKeepsName ==
    pp.fn = "download_attachment_to_local"
    => \A n \in 1..Len(Relays) :
          /\ remove_prefix_from_filename(Relays[n].name)
               = remove_prefix_from_filename(pp.arg)
          /\ Relays[n].name = get_filename_with_prefix(pp.arg, Relays[n].key)

(***************************************************************************)
(* Claims about the payload builders (under SpecPayload and SpecPrefix)     *)
(***************************************************************************)
\* the rules the create payload takes nothing from: SYNC_METADATA rules,
\* STATIC_VALUE rules triggered on CREATE, T2S rules, the attachment field
LeftOutOfCreate(item) ==
    \/ item.strategy = "SYNC_METADATA"
    \/ item.strategy = "STATIC_VALUE" /\ "CREATE" \in item.triggerOn
    \/ item.syncDirection = "T2S"
    \/ item.type = "system" /\ item.fieldId = "attachment"

TakenForCreate(item) == ~LeftOutOfCreate(item)

\* C12: whatever the table and the source issue, the create payload has no
\* attachment field and is the payload of the table without its SYNC_METADATA
\* rules, its STATIC_VALUE rules triggered on CREATE, its T2S rules and its
\* attachment rule: none of these rules contributes a field.
C12_CreatePayloadLeavesOut ==
    (pp.fn = "prepare_create_payload" /\ pp.out # Unset)
    => /\ ~DictHas(pp.out, "attachment")
       /\ pp.out = prepare_create_payload(SelectSeq(mappings, TakenForCreate),
                                          srcIssues["S1"], TargetProjectKey, "Bug")
       /\ \A k \in DictKeys(pp.out) \ {"project", "issuetype"} :
             \E n \in 1..Len(mappings) :
                TakenForCreate(mappings[n]) /\ TargetFieldOf(mappings[n]) = k

\* a table with a T2S rule whose source field the issue carries, next to a
\* rule that does contribute
C12_Witness ==
    /\ pp.fn = "prepare_create_payload" /\ pp.out # Unset
    /\ mappings = <<NoteRule, SummaryRule>>
    /\ srcIssues["S1"].fields["customfield_20001"] = Str("note")
    /\ pp.out = << <<"project", Str(TargetProjectKey)>>, <<"issuetype", Str("Bug")>>,
                   <<"summary", Str("one")>> >>

\* C26: under a rule with a prefix, a value that already starts with the
\* prefix (a string, or a document by its first text run) is written to the
\* target as it is; and over any sequence of creates and S2T and T2S syncs of
\* the field, from a value that carries the prefix in front or not at all, the
\* value on neither issue carries the prefix more than once.
C26_PrefixOnce ==
    (pp.fn \in {"prepare_create_payload", "prepare_update_payload"})
    => /\ (pp.direction = "S2T" /\ StartsWithPrefix(SourceText, DescriptionRule.prefix))
             => TargetText = SourceText
       /\ PrefixCount(SourceText, DescriptionRule.prefix) <= 1
       /\ PrefixCount(TargetText, DescriptionRule.prefix) <= 1

\* the document out is the document in with one text run holding the prefix
\* put in front of the text runs of one of its blocks
RunAdded(in, out, prefix) ==
    \E b \in 1..Len(in[2]) : \E i \in 1..(Len(in[2][b].content) + 1) :
       /\ \A j \in 1..(i - 1) : in[2][b].content[j].type # "text"
       /\ out = Doc([in[2] EXCEPT ![b].content = InsertAt(@, i, PrefixNode(prefix))])

\* the document out is the document in with a new first paragraph that holds
\* the prefix and nothing else
ParagraphAdded(in, out, prefix) ==
    out = Doc(<<Block("paragraph", <<PrefixNode(prefix)>>)>> \o in[2])

\* C27: add_prefix_to_adf returns, for every document, the document with all
\* its blocks and nodes in their order and at most one text run added, which
\* holds the prefix and stands in front of the text it is put with; the
\* document handed in is left as it was.  Documents whose first block is no
\* paragraph and documents without any text run are among the inputs.
C27_AdfKeepsNodes ==
    (pp.fn = "add_prefix_to_adf" /\ pp.out # Unset)
    => /\ pp.arg = SourceText
       /\ \/ pp.out = pp.arg
          \/ RunAdded(pp.arg, pp.out, DescriptionRule.prefix)
          \/ ParagraphAdded(pp.arg, pp.out, DescriptionRule.prefix)

\* the issue that receives the map of an update: the target issue in S2T, the
\* source issue in T2S
ReceivingIssue == IF pp.direction = "S2T" THEN tgtIssues["T1"] ELSE srcIssues["S1"]

\* C15: when every value prepare_update_payload would write equals the value
\* the receiving issue already holds for that field, the map it returns is
\* empty.
C15_EmptyWhenUnchanged ==
    (/\ pp.fn = "prepare_update_payload" /\ pp.out # Unset
     /\ \A k \in DictKeys(pp.out) : FieldGet(ReceivingIssue, k) = DictGet(pp.out, k))
    => pp.out = <<>>


====
